---- MODULE Spec2Model ----
(***************************************************************************)
(* A model of gdb's variable-object subsystem (src/gdb/varobj.c): the      *)
(* registry (hash table + root list), the lazily materialized tree of      *)
(* variable objects, and varobj_update's change detection.                 *)
(*                                                                         *)
(* Strings that the code hashes or concatenates (object names, expression  *)
(* texts, field names) are sequences of character codes.  Types are named  *)
(* by their printed name.  The debuggee (frames, pc, memory) and gdb's     *)
(* expression evaluator are the environment of the subsystem.              *)
(***************************************************************************)
EXTENDS Integers, Sequences, FiniteSets, TLC

VARIABLES
  objs,        \* live struct varobj, keyed by address (1, 2, ...)
  varobj_table,\* hash bucket -> chain of varobj addresses (non-empty buckets)
  rootlist,    \* the list of roots, head first
  rootcount,   \* static int rootcount
  tgt,         \* the debuggee: memory, run-time class, frame of f, its pc
  selected,    \* deprecated_selected_frame
  scheduler_mode, \* the scheduler-locking mode: "off", "step" or "on"
  input_radix, \* gdb's input_radix
  varobj_runs_all_threads, \* int varobj_runs_all_threads
  id,          \* static int id of varobj_gen_name
  session,     \* what the front end watches in this run (fixed by Init)
  last         \* the last public operation: its arguments and what it returned

vars == <<objs, varobj_table, rootlist, rootcount, tgt, selected, scheduler_mode,
          input_radix, varobj_runs_all_threads, id, session, last>>

-----------------------------------------------------------------------------
(* Bounds *)

MaxRoots == 2      \* roots the front end keeps registered at a time
MaxVal == 1        \* the debuggee's int cell holds 0..MaxVal
MaxGen == 2        \* names the front end has generated in a run
MaxBases == 2      \* direct base classes of a class
MaxFields == 3     \* fields of a class that are not base classes

(* Program constants *)

VAROBJ_TABLE_SIZE == 227

-----------------------------------------------------------------------------
(* Strings *)

str_a == <<97>>
str_g == <<103>>
str_m == <<109>>
str_n == <<110>>
str_q == <<113>>
str_s == <<115>>
str_v == <<118>>
str_w == <<119>>
str_x == <<120>>
str_dot == <<46>>
str_star == <<42>>
str_bad == <<63>>                       \* "?": no expression
str_v_a == str_v \o str_dot \o str_a    \* "v.a"
str_cb == <<99, 98>>                    \* "cb" and "ac" share a hash bucket
str_ac == <<97, 99>>

str_var == <<118, 97, 114>>             \* "var"
str_k == <<107>>
str_j == <<106>>
str_public == <<112, 117, 98, 108, 105, 99>>
str_private == <<112, 114, 105, 118, 97, 116, 101>>
str_protected == <<112, 114, 111, 116, 101, 99, 116, 101, 100>>
str_braces == <<123, 46, 46, 46, 125>>  \* "{...}"

RECURSIVE Decimal(_)
\* what %d prints for n >= 0
Decimal(n) == IF n < 10 THEN <<48 + n>> ELSE Decimal(n \div 10) \o <<48 + (n % 10)>>

NoName == <<>>      \* a NULL char *
NoObj == 0          \* a NULL struct varobj *
NoType == ""        \* a NULL struct type *

-----------------------------------------------------------------------------
(* The debuggee's types *)

Field(n, t) == [name |-> n, type |-> t]

TYPE_CODE(t) ==
  CASE t = "int" -> "INT"
    [] t \in {"S", "T", "Base", "Derived", "K"} -> "STRUCT"
    [] t \in {"Base *", "Derived *"} -> "PTR"
    [] OTHER -> "UNDEF"

TYPE_FIELDS(t) ==
  CASE t = "S" -> <<Field(str_a, "int"), Field(str_q, "Base *")>>
    [] t = "T" -> <<Field(str_a, "int")>>
    [] t = "Base" -> <<Field(str_n, "int")>>
    [] t = "Derived" -> <<Field(str_n, "int"), Field(str_m, "int")>>
    [] t = "K" -> <<Field(str_private, "int"), Field(str_a, "int")>>
    [] OTHER -> <<>>

TYPE_NFIELDS(t) == Len(TYPE_FIELDS(t))

TYPE_TARGET_TYPE(t) ==
  CASE t = "Base *" -> "Base"
    [] t = "Derived *" -> "Derived"
    [] OTHER -> NoType

lookup_pointer_type(t) ==
  CASE t = "Base" -> "Base *"
    [] t = "Derived" -> "Derived *"
    [] OTHER -> NoType

\* the index of the field called n in t, or 0
FieldIndex(t, n) ==
  LET hits == {i \in 1..TYPE_NFIELDS(t) : TYPE_FIELDS(t)[i].name = n}
  IN IF hits = {} THEN 0 ELSE CHOOSE i \in hits : \A j \in hits : i <= j

lookup_struct_elt_type(t, n) ==
  IF FieldIndex(t, n) = 0 THEN NoType ELSE TYPE_FIELDS(t)[FieldIndex(t, n)].type

-----------------------------------------------------------------------------
(* The debuggee: frames and blocks *)

null_frame_id == 0
F0 == [id |-> 1]     \* main's frame: always live, its pc inside main's body
F1 == [id |-> 2]     \* the frame of function f: live while f runs

NoBlock == [startaddr |-> 0, endaddr |-> 0]       \* a NULL struct block *
BlockM == [startaddr |-> 100, endaddr |-> 200]    \* main's body: int x
BlockB == [startaddr |-> 2, endaddr |-> 3]        \* a block inside f: T x
BlockF == [startaddr |-> 1, endaddr |-> 4]        \* f's body: x not visible
PcMain == [pc |-> 150]
PcsOfF == 1..3

LiveFrames(t) == IF t.f1live THEN {F0.id, F1.id} ELSE {F0.id}

\* frame_find_by_id: the frame, or null_frame_id for none
frame_find_by_id(t, fid) == IF fid \in LiveFrames(t) THEN fid ELSE null_frame_id

get_frame_pc(t, fid) == IF fid = F1.id THEN t.pc ELSE PcMain.pc

\* get_frame_block (fi, 0): the innermost block at the frame's pc
get_frame_block(t, fid) ==
  IF fid = F1.id
  THEN IF BlockB.startaddr <= t.pc /\ t.pc < BlockB.endaddr THEN BlockB ELSE BlockF
  ELSE BlockM

-----------------------------------------------------------------------------
(* Values (gdb's struct value) and gdb's evaluator, the collaborators of   *)
(* varobj.c (wrapper.c's gdb_* functions never longjmp: they return 0).    *)
(* Every int lvalue of the debuggee reads the one cell tgt.val; pointers   *)
(* hold the address 0 of the one class object, whose run-time class is     *)
(* tgt.dyn.  A lazy value has not read its contents yet.                   *)

NullValue == [null |-> TRUE, type |-> NoType, lazy |-> FALSE, data |-> 0]

MkValue(ty, lz, d) == [null |-> FALSE, type |-> ty, lazy |-> lz, data |-> d]

ContentOf(t, ty) == IF TYPE_CODE(ty) = "PTR" THEN t.ptr ELSE t.val

\* gdb_value_fetch_lazy: reads the contents, or fails on unreadable memory
gdb_value_fetch_lazy(t, v) ==
  IF t.memOK
  THEN [ok |-> TRUE, value |-> MkValue(v.type, FALSE, ContentOf(t, v.type))]
  ELSE [ok |-> FALSE, value |-> v]

\* gdb_value_equal: value_equal under catch_errors; reading a lazy operand
\* fetches it
gdb_value_equal(t, v1, v2) ==
  LET read(v) == IF v.lazy THEN gdb_value_fetch_lazy(t, v) ELSE [ok |-> TRUE, value |-> v]
      cmp(c1, c2) == [ok |-> c1.ok /\ c2.ok,
                      r |-> c1.ok /\ c2.ok /\ c1.value.data = c2.value.data]
  IN cmp(read(v1), read(v2))

\* a NULL struct expression *
NoExp == [sym |-> "", type |-> NoType, la_language |-> "", num |-> 0]

MkParse(okv, sy, ty, blk) ==
  [ok |-> okv,
   exp |-> IF okv THEN [sym |-> sy, type |-> ty, la_language |-> "language_c", num |-> 0]
           ELSE NoExp,
   innermost_block |-> blk]

\* the parse of a text read while current_language is lang
InLanguage(parse, lang) == [parse EXCEPT !.exp.la_language = lang]

\* the text of the decimal literal n, and its parse
str_lit(n) == <<48 + n>>

MkLit(n) ==
  [ok |-> TRUE,
   exp |-> [sym |-> "lit", type |-> "int", la_language |-> "language_c", num |-> n],
   innermost_block |-> NoBlock]

\* a parser that takes any text for the global g
ParseAnythingMutant(text, blk) == MkParse(TRUE, "g", "int", NoBlock)

\* gdb_parse_exp_1 (&p, block, 0, &exp), with the parser's innermost_block:
\* g, s, q are globals; x is T x in block B of f and int x in main
gdb_parse_exp_1(text, blk) ==
  CASE text = str_g -> MkParse(TRUE, "g", "int", NoBlock)
    [] text = str_s -> MkParse(TRUE, "s", "S", NoBlock)
    [] text = str_q -> MkParse(TRUE, "q", "Base *", NoBlock)
    [] text = str_k -> InLanguage(MkParse(TRUE, "k", "K", NoBlock), "language_cplus")
    [] text = str_j -> InLanguage(MkParse(TRUE, "j", "K", NoBlock), "language_java")
    [] text = str_x /\ blk = BlockB -> MkParse(TRUE, "xB", "T", BlockB)
    [] text = str_x /\ blk = BlockM -> MkParse(TRUE, "xM", "int", BlockM)
    [] \E n \in 0..MaxVal : text = str_lit(n) -> MkLit(text[1] - 48)
    [] OTHER -> MkParse(FALSE, "", NoType, NoBlock)

\* gdb_evaluate_expression: fails when the evaluation faults, or when the
\* frame holding a local is gone; a variable's value comes back lazy, a
\* literal's value is its number
gdb_evaluate_expression(t, exp) ==
  IF exp.sym = "lit" THEN [ok |-> TRUE, value |-> MkValue(exp.type, FALSE, exp.num)]
  ELSE IF t.evalOK /\ (exp.sym = "xB" => t.f1live)
  THEN [ok |-> TRUE, value |-> MkValue(exp.type, TRUE, 0)]
  ELSE [ok |-> FALSE, value |-> NullValue]

\* gdb_evaluate_type: a value of the expression's type, contents unread
gdb_evaluate_type(exp) == [ok |-> TRUE, value |-> MkValue(exp.type, TRUE, 0)]

\* gdb_value_assign: stores fromval in the debuggee's cell; fails on
\* unwritable memory.  val is the value of the assignment, t the debuggee
\* afterwards
gdb_value_assign(t, toval, fromval) ==
  IF t.memOK
  THEN [ok |-> TRUE, val |-> MkValue(toval.type, FALSE, fromval.data),
        t |-> IF TYPE_CODE(toval.type) = "PTR" THEN [t EXCEPT !.ptr = fromval.data]
              ELSE [t EXCEPT !.val = fromval.data]]
  ELSE [ok |-> FALSE, val |-> NullValue, t |-> t]

\* value_rtti_target_type under catch_exceptions: the run-time class of the
\* object a pointer points to, NULL if it cannot be read
safe_value_rtti_target_type(t, v) == IF t.memOK THEN t.dyn ELSE NoType

\* varobj_fixup_value: the dynamic type of a pointer value, and the value
\* cast to it (varobj_use_dynamic_type is 1)
varobj_fixup_value(t, v) ==
  IF TYPE_CODE(v.type) = "PTR"
  THEN LET rtti == safe_value_rtti_target_type(t, v)
           dynamic_type == IF rtti # NoType THEN lookup_pointer_type(rtti) ELSE NoType
       IN IF dynamic_type # NoType
          THEN [value |-> [v EXCEPT !.type = dynamic_type], dynamic_type |-> dynamic_type]
          ELSE [value |-> v, dynamic_type |-> NoType]
  ELSE [value |-> v, dynamic_type |-> NoType]

-----------------------------------------------------------------------------
(* struct varobj, with the struct varobj_root of a root kept in the root's *)
(* own record (a child reaches it through its root field)                  *)

new_variable ==
  [name |-> NoName, path_expr |-> NoName, obj_name |-> NoName, index |-> -1,
   type |-> NoType, dynamic_type |-> NoType, value |-> NullValue,
   error |-> FALSE, num_children |-> -1, parent |-> NoObj, children |-> <<>>,
   fake_child |-> FALSE, format |-> "natural", root |-> NoObj,
   updated |-> FALSE,
   exp |-> NoExp, valid_block |-> NoBlock, frame |-> null_frame_id,
   use_selected_frame |-> FALSE, in_scope |-> FALSE, lang |-> ""]

\* the address malloc returns: the lowest one not in use
NewAddr(os) ==
  CHOOSE a \in 1..(Cardinality(DOMAIN os) + 1) :
    a \notin DOMAIN os /\ \A b \in 1..(a - 1) : b \in DOMAIN os

Drop(os, v) == [a \in DOMAIN os \ {v} |-> os[a]]

Put(os, v, rec) == [a \in DOMAIN os \cup {v} |-> IF a = v THEN rec ELSE os[a]]

is_root_p(os, v) == os[v].root = v

RootOf(os, v) == os[os[v].root]

\* the registry and the heap, as the operations below pass it along
Store(os, tb, rl, rc) == [objs |-> os, table |-> tb, rootlist |-> rl, rootcount |-> rc]

\* make_cleanup: the caller keeps the length of the chain before the call
\* as its struct cleanup *
make_cleanup(st, function) ==
  [st EXCEPT !.cleanup_chain = Append(@, [function |-> function, arg |-> ""])]

\* a cleanup that is made without setting the mode
RestoreOnlyMutant(st, new_mode) ==
  [st EXCEPT !.cleanup_chain = Append(@, [function |-> "restore_scheduler_locking_mode",
                                          arg |-> st.scheduler_mode])]

\* make_cleanup_set_restore_scheduler_locking_mode: the mode becomes
\* new_mode, and a cleanup is made that sets the mode it was
make_cleanup_set_restore_scheduler_locking_mode(st, new_mode) ==
  [st EXCEPT !.cleanup_chain = Append(@, [function |-> "restore_scheduler_locking_mode",
                                          arg |-> st.scheduler_mode]),
             !.scheduler_mode = new_mode]

\* a do_cleanups that forgets the cleanups without running them
DiscardingCleanupsMutant(st, old_chain) ==
  [st EXCEPT !.cleanup_chain = SubSeq(@, 1, old_chain)]

RECURSIVE do_cleanups(_, _)
\* do_cleanups: runs and removes the cleanups made since old_chain, the
\* last made first
do_cleanups(st, old_chain) ==
  LET n == Len(st.cleanup_chain)
      top == st.cleanup_chain[n]
  IN IF n <= old_chain THEN st
     ELSE do_cleanups(
            [st EXCEPT !.cleanup_chain = SubSeq(@, 1, n - 1),
                       !.scheduler_mode =
                         IF top.function = "restore_scheduler_locking_mode"
                         THEN top.arg ELSE @],
            old_chain)

\* discard_cleanups: removes the cleanups made since old_chain
discard_cleanups(st, old_chain) ==
  [st EXCEPT !.cleanup_chain = SubSeq(@, 1, old_chain)]

\* the calls into the debuggee made by the operation in progress are noted
\* with the scheduler-locking mode they are made in
Access(st, what) ==
  [st EXCEPT !.accesses = @ \cup {[what |-> w, mode |-> st.scheduler_mode] : w \in what}]

\* value_free (var->value): the values the operation in progress has
\* released are noted with the object that held them (NULL is not a value)
value_free(st, var) ==
  IF st.objs[var].value.null THEN st
  ELSE [st EXCEPT !.value_frees = Append(@, [var |-> var, value |-> st.objs[var].value])]

\* the scheduler-locking mode, the cleanup chain and the noted calls of
\* from, in st
WithLocking(st, from) ==
  [st EXCEPT !.scheduler_mode = from.scheduler_mode,
             !.cleanup_chain = from.cleanup_chain,
             !.accesses = from.accesses]

RECURSIVE HashFrom(_, _, _)
HashFrom(name, i, index) ==
  IF i > Len(name) THEN index
  ELSE HashFrom(name, i + 1, (index + i * name[i]) % VAROBJ_TABLE_SIZE)

\* index = (index + (i++ * (unsigned int) *chp)) % VAROBJ_TABLE_SIZE
HashIndex(name) == HashFrom(name, 1, 0)

Chain(tb, index) == IF index \in DOMAIN tb THEN tb[index] ELSE <<>>

SetChain(tb, index, chain) ==
  IF chain = <<>> THEN [b \in DOMAIN tb \ {index} |-> tb[b]]
  ELSE [b \in DOMAIN tb \cup {index} |-> IF b = index THEN chain ELSE tb[b]]

\* the position in the chain of the first varobj called name, or 0
ChainFind(st, chain, name) ==
  LET hits == {i \in 1..Len(chain) : st.objs[chain[i]].obj_name = name}
  IN IF hits = {} THEN 0 ELSE CHOOSE i \in hits : \A j \in hits : i <= j

SeqWithout(sq, i) == [j \in 1..(Len(sq) - 1) |-> IF j < i THEN sq[j] ELSE sq[j + 1]]

\* a lookup that takes the head of the bucket without comparing names
HandleHeadOfBucketMutant(st, objname) ==
  LET chain == Chain(st.table, HashIndex(objname))
  IN IF chain = <<>> THEN NoObj ELSE chain[1]

\* varobj_get_handle: the varobj called objname, NoObj for error ()
varobj_get_handle(st, objname) ==
  LET chain == Chain(st.table, HashIndex(objname))
      cv == ChainFind(st, chain, objname)
  IN IF cv = 0 THEN NoObj ELSE chain[cv]

InstallDupMutant(st, v) ==
  LET index == HashIndex(st.objs[v].obj_name)
      chain == Chain(st.table, index)
  IN [ok |-> TRUE,
      st |-> [st EXCEPT !.table = SetChain(st.table, index, <<v>> \o chain),
                        !.rootlist = IF is_root_p(st.objs, v) THEN <<v>> \o @ ELSE @,
                        !.rootcount = IF is_root_p(st.objs, v) THEN @ + 1 ELSE @]]

\* install_variable: ok = FALSE is error ("Duplicate variable object name")
install_variable(st, v) ==
  LET index == HashIndex(st.objs[v].obj_name)
      chain == Chain(st.table, index)
  IN IF ChainFind(st, chain, st.objs[v].obj_name) # 0
     THEN [ok |-> FALSE, st |-> st]
     ELSE [ok |-> TRUE,
           st |-> [st EXCEPT !.table = SetChain(st.table, index, <<v>> \o chain),
                             !.rootlist = IF is_root_p(st.objs, v) THEN <<v>> \o @ ELSE @,
                             !.rootcount = IF is_root_p(st.objs, v) THEN @ + 1 ELSE @]]

\* the position of root v in the root list, or 0
RootFind(rl, v) ==
  LET hits == {i \in 1..Len(rl) : rl[i] = v}
  IN IF hits = {} THEN 0 ELSE CHOOSE i \in hits : \A j \in hits : i <= j

\* an uninstall that leaves the root list alone
UninstallKeepsRootMutant(st, v) ==
  LET index == HashIndex(st.objs[v].obj_name)
      chain == Chain(st.table, index)
      cv == ChainFind(st, chain, st.objs[v].obj_name)
  IN IF cv = 0 THEN st
     ELSE [st EXCEPT !.table = SetChain(st.table, index, SeqWithout(chain, cv))]

\* uninstall_variable: out of the hash chain, and a root out of the root list
uninstall_variable(st, v) ==
  LET index == HashIndex(st.objs[v].obj_name)
      chain == Chain(st.table, index)
      cv == ChainFind(st, chain, st.objs[v].obj_name)
      tb == SetChain(st.table, index, SeqWithout(chain, cv))
      cr == RootFind(st.rootlist, v)
  IN IF cv = 0 THEN st
     ELSE IF ~is_root_p(st.objs, v) THEN [st EXCEPT !.table = tb]
     ELSE IF cr = 0 THEN [st EXCEPT !.table = tb]
     ELSE [st EXCEPT !.table = tb,
                     !.rootlist = SeqWithout(st.rootlist, cr),
                     !.rootcount = @ - 1]

\* varobj_list: the count it returns and the list it fills, rootcount
\* entries of the root list at most
varobj_list(st) ==
  [ret |-> st.rootcount,
   varlist |-> SubSeq(st.rootlist, 1,
                      IF st.rootcount < Len(st.rootlist)
                      THEN st.rootcount ELSE Len(st.rootlist))]

\* save_child_in_parent: insert the child at the top
save_child_in_parent(os, parent, child) ==
  [os EXCEPT ![parent].children = <<child>> \o @]

\* the node behind the child's node is unlinked with it
RemoveWithNextMutant(os, parent, child) ==
  LET i == RootFind(os[parent].children, child)
  IN [os EXCEPT ![parent].children =
        IF i < Len(@) THEN SeqWithout(SeqWithout(@, i + 1), i) ELSE SeqWithout(@, i)]

\* the child's list node stays in the parent's list
RemoveNothingMutant(os, parent, child) == os

\* remove_child_from_parent: unlink the child's list node
remove_child_from_parent(os, parent, child) ==
  LET i == RootFind(os[parent].children, child)
  IN [os EXCEPT ![parent].children = SeqWithout(@, i)]

\* a look-up that takes the index for the position in the child list
ChildAtPositionMutant(os, var, index) ==
  IF index + 1 <= Len(os[var].children) THEN os[var].children[index + 1] ELSE NoObj

\* child_exists: the child of var with this index, or NoObj
child_exists(os, var, index) ==
  LET kids == os[var].children
      hits == {i \in 1..Len(kids) : os[kids[i]].index = index}
  IN IF hits = {} THEN NoObj
     ELSE kids[CHOOSE i \in hits : \A j \in hits : i <= j]

-----------------------------------------------------------------------------
(* Deletion.  acc = [st, result, delcount]: result is the cpstack as the   *)
(* sequence of names pushed, the bottom first.                             *)

RECURSIVE delete_variable_1(_, _, _, _)
RECURSIVE delete_children(_, _, _, _, _)

\* the loop over var->children of delete_variable_1
delete_children(acc, kids, i, remove_from_parent_p, only_children_p) ==
  IF i > Len(kids) THEN acc
  ELSE LET c == kids[i]
           a1 == IF ~remove_from_parent_p
                 THEN [acc EXCEPT !.st.objs[c].parent = NoObj]
                 ELSE acc
           a2 == delete_variable_1(a1, c, FALSE, only_children_p)
       IN delete_children(a2, kids, i + 1, remove_from_parent_p, only_children_p)

delete_variable_1(acc, var, only_children_p, remove_from_parent_p) ==
  LET a1 == delete_children(acc, acc.st.objs[var].children, 1,
                            remove_from_parent_p, only_children_p)
      me == a1.st.objs[var]
      named == me.obj_name # NoName
      a2 == IF named
            THEN [a1 EXCEPT !.result = Append(@, me.obj_name), !.delcount = @ + 1]
            ELSE a1
      os3 == IF remove_from_parent_p /\ me.parent # NoObj
             THEN remove_child_from_parent(a2.st.objs, me.parent, var)
             ELSE a2.st.objs
      st3 == [a2.st EXCEPT !.objs = os3]
      st4 == IF named THEN uninstall_variable(st3, var) ELSE st3
  IN IF only_children_p THEN a1
     ELSE [a2 EXCEPT !.st = [st4 EXCEPT !.objs = Drop(st4.objs, var)]]

\* delete_variable: remove_from_parent_p is 1 at the top
delete_variable(st, var, only_children_p) ==
  delete_variable_1([st |-> st, result |-> <<>>, delcount |-> 0],
                    var, only_children_p, TRUE)

\* the names in the order they were pushed
PopKeepsOrderMutant(result) == result

\* the pops stop one name early
PopStopsEarlyMutant(result) == SubSeq(result, 2, Len(result))

\* cppop until the stack is empty: the names, the last pushed first
PopAll(result) == [i \in 1..Len(result) |-> result[Len(result) + 1 - i]]

\* varobj_delete: the count, the list it returns, the store afterwards
varobj_delete(st, var, only_children) ==
  LET d == delete_variable(st, var, only_children)
  IN [st |-> d.st, delcount |-> d.delcount, dellist |-> PopAll(d.result)]

-----------------------------------------------------------------------------
(* The language strategy (the C entries of the languages table)            *)

str_unknown == <<63, 63, 63>>

\* get_type: the dynamic type when set (varobj_use_dynamic_type is 1)
get_type(o) == IF o.dynamic_type # NoType THEN o.dynamic_type ELSE o.type

get_target_type(ty) == IF ty # NoType THEN TYPE_TARGET_TYPE(ty) ELSE NoType

\* variable_language: vlang_c when the root has no expression
exp_language(exp) ==
  IF exp = NoExp THEN "c"
  ELSE CASE exp.la_language \in {"language_cplus", "language_objcplus"} -> "cplus"
         [] exp.la_language = "language_java" -> "java"
         [] OTHER -> "c"

variable_language(os, v) == exp_language(RootOf(os, v).exp)

\* get_type_deref: the type, or what it points to
get_type_deref(o) ==
  IF get_type(o) # NoType /\ TYPE_CODE(get_type(o)) \in {"PTR", "REF"}
  THEN get_target_type(get_type(o))
  ELSE get_type(o)

CPLUS_FAKE_CHILD(os, v) == v # NoObj /\ os[v].fake_child

c_number_of_children(o) ==
  LET type == get_type(o)
      target == get_target_type(type)
  IN IF type = NoType THEN -1
     ELSE CASE TYPE_CODE(type) = "STRUCT" -> TYPE_NFIELDS(type)
            [] TYPE_CODE(type) = "PTR" ->
                 (CASE TYPE_CODE(target) = "STRUCT" -> TYPE_NFIELDS(target)
                    [] TYPE_CODE(target) \in {"FUNC", "VOID"} -> 0
                    [] OTHER -> 1)
            [] OTHER -> 0

\* c_make_name_of_child; index counts from 0
c_make_name_of_child(o, index) ==
  LET type == get_type(o)
      target == get_target_type(type)
  IN CASE TYPE_CODE(type) = "STRUCT" -> TYPE_FIELDS(type)[index + 1].name
       [] TYPE_CODE(type) = "PTR" ->
            (CASE TYPE_CODE(target) = "STRUCT" -> TYPE_FIELDS(target)[index + 1].name
               [] OTHER -> str_star \o o.name)
       [] OTHER -> str_unknown

\* gdb_value_struct_elt on a struct value: the member's value, cut out of
\* the struct's contents (lazy when the struct is)
StructElt(temp, name) ==
  LET ft == lookup_struct_elt_type(temp.type, name)
  IN IF ft = NoType THEN NullValue
     ELSE MkValue(ft, temp.lazy, IF TYPE_CODE(ft) = "PTR" THEN 0 ELSE temp.data)

\* gdb_value_struct_elt through a pointer: the pointer is read, the member
\* is a lazy value in the object it points to
PtrStructElt(t, temp, name) ==
  LET ft == lookup_struct_elt_type(TYPE_TARGET_TYPE(temp.type), name)
  IN IF (temp.lazy /\ ~t.memOK) \/ ft = NoType THEN NullValue
     ELSE MkValue(ft, TRUE, 0)

\* c_value_of_child: the child's value out of the parent's current value
c_value_of_child(t, os, parent, index) ==
  LET type == get_type(os[parent])
      target == get_target_type(type)
      child == child_exists(os, parent, index)
      name == os[child].name
      temp == os[parent].value
  IN IF temp.null THEN NullValue
     ELSE CASE TYPE_CODE(type) = "STRUCT" -> StructElt(temp, name)
            [] TYPE_CODE(type) = "PTR" ->
                 (CASE TYPE_CODE(target) = "STRUCT" -> PtrStructElt(t, temp, name)
                    [] OTHER -> IF temp.lazy /\ ~t.memOK THEN NullValue
                                ELSE MkValue(target, TRUE, 0))
            [] OTHER -> NullValue

\* c_type_of_child
c_type_of_child(os, parent, index) ==
  LET parent_type == get_type(os[parent])
      name == os[child_exists(os, parent, index)].name
      target_type == get_target_type(parent_type)
  IN CASE TYPE_CODE(parent_type) = "STRUCT" -> lookup_struct_elt_type(parent_type, name)
       [] TYPE_CODE(parent_type) = "PTR" ->
            (CASE TYPE_CODE(target_type) = "STRUCT" -> lookup_struct_elt_type(target_type, name)
               [] OTHER -> target_type)
       [] OTHER -> NoType

\* every object, whatever its type, can change
AllChangeableMutant(os, v) == TRUE

\* varobj_value_is_changeable_p
varobj_value_is_changeable_p(os, v) ==
  IF CPLUS_FAKE_CHILD(os, v) THEN FALSE
  ELSE IF get_type(os[v]) = NoType THEN FALSE
  ELSE TYPE_CODE(get_type(os[v])) \notin {"STRUCT", "UNION", "ARRAY"}

\* c_variable_editable
c_variable_editable(o) ==
  TYPE_CODE(get_type(o)) \notin {"STRUCT", "UNION", "ARRAY", "FUNC", "MEMBER", "METHOD"}

ValueEqualAlwaysMutant(t, val1, val2) == [r |-> TRUE, error2 |-> FALSE]

ValueEqualNeverMutant(t, val1, val2) == [r |-> FALSE, error2 |-> FALSE]

\* my_value_equal: r, and what it stores in *error2
my_value_equal(t, val1, val2) ==
  LET decide(err1, err2, e) ==
        IF err1 # err2 THEN [r |-> FALSE, error2 |-> err2]
        ELSE IF ~e.ok THEN [r |-> TRUE, error2 |-> err2]
        ELSE [r |-> e.r, error2 |-> err2]
  IN IF val1.null /\ val2.null THEN [r |-> TRUE, error2 |-> FALSE]
     ELSE IF val1.null \/ val2.null THEN [r |-> FALSE, error2 |-> FALSE]
     ELSE decide(~gdb_value_equal(t, val1, val1).ok,
                 ~gdb_value_equal(t, val2, val2).ok,
                 gdb_value_equal(t, val1, val2))

-----------------------------------------------------------------------------
(* The C++ strategy, on class types.  A class type is a record: its first *)
(* n_baseclasses fields are the base classes, access gives the access     *)
(* level of each field after them, vptr_fieldno is TYPE_VPTR_FIELDNO and   *)
(* vptr_basetype_self tells whether TYPE_VPTR_BASETYPE is the type itself. *)

v_public == 0
v_private == 1
v_protected == 2

\* int children[3], all 0
NoKids == [prot \in {v_public, v_private, v_protected} |-> 0]

TYPE_N_BASECLASSES(type) == type.n_baseclasses

\* TYPE_NFIELDS of a class type
CLASS_NFIELDS(type) == type.n_baseclasses + Len(type.access)

\* TYPE_FIELD_NAME of a class type: "B0", "B1" for the base classes, "f2",
\* ... for the fields after them
CLASS_FIELD_NAME(type, i) ==
  IF i < type.n_baseclasses THEN <<66, 48 + i>> ELSE <<102, 48 + i>>

TYPE_FIELD_PROTECTED(type, i) == type.access[i - type.n_baseclasses + 1] = "protected"

TYPE_FIELD_PRIVATE(type, i) == type.access[i - type.n_baseclasses + 1] = "private"

RECURSIVE class_num_children_from(_, _, _)
\* the for loop of cplus_class_num_children from field i on
class_num_children_from(type, i, children) ==
  IF i >= CLASS_NFIELDS(type) THEN children
  ELSE IF type.vptr_basetype_self /\ type.vptr_fieldno = i
  THEN class_num_children_from(type, i + 1, children)
  ELSE IF TYPE_FIELD_PROTECTED(type, i)
  THEN class_num_children_from(type, i + 1, [children EXCEPT ![v_protected] = @ + 1])
  ELSE IF TYPE_FIELD_PRIVATE(type, i)
  THEN class_num_children_from(type, i + 1, [children EXCEPT ![v_private] = @ + 1])
  ELSE class_num_children_from(type, i + 1, [children EXCEPT ![v_public] = @ + 1])

\* a count that does not leave out the virtual table pointer
CountsVptrMutant(type) ==
  class_num_children_from([type EXCEPT !.vptr_basetype_self = FALSE],
                          TYPE_N_BASECLASSES(type), NoKids)

\* cplus_class_num_children: children[v_public], [v_private], [v_protected]
cplus_class_num_children(type) ==
  class_num_children_from(type, TYPE_N_BASECLASSES(type), NoKids)

\* cplus_number_of_children of an object of class type that is not a fake
\* child
cplus_number_of_children(type) ==
  LET kids == cplus_class_num_children(type)
      c1 == IF kids[v_public] # 0 THEN 1 ELSE 0
      c2 == IF kids[v_private] # 0 THEN c1 + 1 ELSE c1
      c3 == IF kids[v_protected] # 0 THEN c2 + 1 ELSE c2
  IN c3 + TYPE_N_BASECLASSES(type)

\* cplus_make_name_of_child of a parent of class type that is not a fake
\* child; NoName where the code returns NULL
cplus_make_name_of_child(type, index) ==
  LET children == cplus_class_num_children(type)
      rest == index - TYPE_N_BASECLASSES(type)
  IN IF index < TYPE_N_BASECLASSES(type) THEN CLASS_FIELD_NAME(type, index)
     ELSE CASE rest = 0 ->
                 (IF children[v_public] > 0 THEN str_public
                  ELSE IF children[v_private] > 0 THEN str_private
                  ELSE str_protected)
            [] rest = 1 ->
                 (IF children[v_public] > 0
                  THEN IF children[v_private] > 0 THEN str_private ELSE str_protected
                  ELSE IF children[v_private] > 0 THEN str_protected
                  ELSE NoName)
            [] rest = 2 -> str_protected
            [] OTHER -> NoName

-----------------------------------------------------------------------------
(* The C++ strategy, on objects.  The debuggee's structs come from C       *)
(* sources: no base classes, every field public, no virtual table pointer. *)

ClassOf(t) ==
  [n_baseclasses |-> 0, access |-> [i \in 1..TYPE_NFIELDS(t) |-> "public"],
   vptr_fieldno |-> -1, vptr_basetype_self |-> FALSE]

\* the type whose fields a C++ object's children are taken from
cplus_class_type(os, var) ==
  IF CPLUS_FAKE_CHILD(os, var) THEN get_type_deref(os[os[var].parent])
  ELSE get_type_deref(os[var])

\* cplus_number_of_children and cplus_make_name_of_child read the fields of
\* a NULL type for a fake child whose parent has no type
NullTypeRead(os, var) ==
  /\ variable_language(os, var) = "cplus"
  /\ CPLUS_FAKE_CHILD(os, var)
  /\ cplus_class_type(os, var) = NoType

\* cplus_number_of_children of the object var
cplus_number_of_children_of(os, var) ==
  LET type == cplus_class_type(os, var)
      kids == cplus_class_num_children(ClassOf(type))
  IN IF ~CPLUS_FAKE_CHILD(os, var)
     THEN IF type = NoType THEN -1
          ELSE IF TYPE_CODE(type) \in {"STRUCT", "UNION"}
          THEN cplus_number_of_children(ClassOf(type))
          ELSE c_number_of_children(os[var])
     ELSE IF os[var].name = str_public THEN kids[v_public]
     ELSE IF os[var].name = str_private THEN kids[v_private]
     ELSE kids[v_protected]

RECURSIVE fake_child_type_index(_, _, _, _)
\* the while loop of cplus_make_name_of_child under a fake parent called
\* name: the type_index it leaves, from type_index on with index left to
\* count down (it stops at the end of the field table here)
fake_child_type_index(class, name, index, type_index) ==
  LET vptr == class.vptr_basetype_self /\ type_index = class.vptr_fieldno
      counts == CASE name = str_private -> TYPE_FIELD_PRIVATE(class, type_index)
                  [] name = str_protected -> TYPE_FIELD_PROTECTED(class, type_index)
                  [] OTHER -> /\ ~TYPE_FIELD_PRIVATE(class, type_index)
                              /\ ~TYPE_FIELD_PROTECTED(class, type_index)
  IN IF index < 0 \/ type_index >= CLASS_NFIELDS(class) THEN type_index - 1
     ELSE fake_child_type_index(class, name,
                                IF ~vptr /\ counts THEN index - 1 ELSE index,
                                type_index + 1)

\* cplus_make_name_of_child of the object parent
cplus_make_name_of_child_of(os, parent, index) ==
  LET type == cplus_class_type(os, parent)
      class == ClassOf(type)
      type_index == fake_child_type_index(class, os[parent].name, index,
                                          TYPE_N_BASECLASSES(class))
  IN IF type # NoType /\ TYPE_CODE(type) \in {"STRUCT", "UNION"}
     THEN IF CPLUS_FAKE_CHILD(os, parent) THEN TYPE_FIELDS(type)[type_index + 1].name
          ELSE IF index < TYPE_N_BASECLASSES(class) THEN TYPE_FIELDS(type)[index + 1].name
          ELSE cplus_make_name_of_child(class, index)
     ELSE c_make_name_of_child(os[parent], index)

\* cplus_value_of_child
cplus_value_of_child(t, os, parent, index) ==
  LET type == cplus_class_type(os, parent)
      class == ClassOf(type)
      name == os[child_exists(os, parent, index)].name
      up == os[os[parent].parent].value
      elt(temp) == IF TYPE_CODE(temp.type) = "PTR" THEN PtrStructElt(t, temp, name)
                   ELSE StructElt(temp, name)
      temp == os[parent].value
      base == TYPE_FIELDS(type)[index + 1].type
  IN IF type # NoType /\ TYPE_CODE(type) \in {"STRUCT", "UNION"}
     THEN IF CPLUS_FAKE_CHILD(os, parent)
          THEN IF up.null THEN NullValue ELSE elt(up)
          ELSE IF index >= TYPE_N_BASECLASSES(class) THEN NullValue
          ELSE IF temp.null THEN c_value_of_child(t, os, parent, index)
          ELSE IF TYPE_CODE(temp.type) = "PTR"
          THEN IF temp.lazy /\ ~t.memOK THEN c_value_of_child(t, os, parent, index)
               ELSE MkValue(base, TRUE, 0)
          ELSE MkValue(base, temp.lazy, temp.data)
     ELSE c_value_of_child(t, os, parent, index)

\* cplus_type_of_child
cplus_type_of_child(os, parent, index) ==
  LET t == cplus_class_type(os, parent)
      name == os[child_exists(os, parent, index)].name
      found == lookup_struct_elt_type(t, name)
  IN IF t # NoType /\ TYPE_CODE(t) \in {"STRUCT", "UNION"}
     THEN IF CPLUS_FAKE_CHILD(os, parent)
          THEN IF found # NoType THEN found ELSE c_type_of_child(os, parent, index)
          ELSE IF index < TYPE_N_BASECLASSES(ClassOf(t))
          THEN TYPE_FIELDS(t)[index + 1].type
          ELSE NoType
     ELSE c_type_of_child(os, parent, index)

\* cplus_variable_editable
cplus_variable_editable(os, var) ==
  IF CPLUS_FAKE_CHILD(os, var) THEN FALSE ELSE c_variable_editable(os[var])

\* a char * a function returns: NULL, or a string
NullString == [null |-> TRUE, s |-> <<>>]
Str(s) == [null |-> FALSE, s |-> s]

\* c_value_of_variable (the debuggee has no arrays; val_print prints a
\* number in decimal)
c_value_of_variable(t, o) ==
  IF TYPE_CODE(get_type(o)) \in {"STRUCT", "UNION"} THEN Str(str_braces)
  ELSE IF o.value.null THEN NullString
  ELSE Str(Decimal(IF o.value.lazy /\ t.memOK THEN ContentOf(t, o.value.type)
                   ELSE o.value.data))

\* cplus_value_of_variable
cplus_value_of_variable(t, os, var) ==
  IF CPLUS_FAKE_CHILD(os, var) THEN Str(<<>>) ELSE c_value_of_variable(t, os[var])

-----------------------------------------------------------------------------
(* The Java strategy                                                       *)

\* java_make_name_of_child: the C++ name with every period made a dash
java_make_name_of_child(os, parent, index) ==
  [i \in DOMAIN cplus_make_name_of_child_of(os, parent, index) |->
     IF cplus_make_name_of_child_of(os, parent, index)[i] = 46 THEN 45
     ELSE cplus_make_name_of_child_of(os, parent, index)[i]]

-----------------------------------------------------------------------------
(* The languages table: each call goes through the root's lang; the Java   *)
(* entries other than java_make_name_of_child call the C++ ones            *)

number_of_children(os, v) ==
  IF RootOf(os, v).lang \in {"cplus", "java"} THEN cplus_number_of_children_of(os, v)
  ELSE c_number_of_children(os[v])

make_name_of_child(os, v, index) ==
  IF RootOf(os, v).lang = "cplus" THEN cplus_make_name_of_child_of(os, v, index)
  ELSE IF RootOf(os, v).lang = "java" THEN java_make_name_of_child(os, v, index)
  ELSE c_make_name_of_child(os[v], index)

lang_value_of_child(t, os, parent, index) ==
  IF RootOf(os, parent).lang \in {"cplus", "java"} THEN cplus_value_of_child(t, os, parent, index)
  ELSE c_value_of_child(t, os, parent, index)

lang_type_of_child(os, parent, index) ==
  IF RootOf(os, parent).lang \in {"cplus", "java"} THEN cplus_type_of_child(os, parent, index)
  ELSE c_type_of_child(os, parent, index)

variable_editable(os, v) ==
  IF RootOf(os, v).lang \in {"cplus", "java"} THEN cplus_variable_editable(os, v)
  ELSE c_variable_editable(os[v])

my_value_of_variable(t, os, v) ==
  IF RootOf(os, v).lang \in {"cplus", "java"} THEN cplus_value_of_variable(t, os, v)
  ELSE c_value_of_variable(t, os[v])

\* varobj_get_value
varobj_get_value(t, os, var) ==
  IF RootOf(os, var).exp = NoExp THEN NullString
  ELSE IF os[var].value.null THEN NullString
  ELSE my_value_of_variable(t, os, var)

\* varobj_get_type: the type's name as type_sprint prints it
varobj_get_type(os, var) ==
  IF CPLUS_FAKE_CHILD(os, var) THEN NullString
  ELSE IF os[var].type = NoType THEN Str("<error getting type>")
  ELSE Str(os[var].type)

-----------------------------------------------------------------------------
(* Children *)

\* value_of_child: the value, whether the child's dynamic type changed, the
\* heap with the child's dynamic_type brought up to date, and the calls
\* into the debuggee it made
value_of_child(t, os, parent, index) ==
  LET fetched(f) == IF f.ok THEN f.value ELSE NullValue
      lazy(v) == IF v.lazy THEN fetched(gdb_value_fetch_lazy(t, v)) ELSE v
      fetch(v) == IF v.lazy THEN {"child_fetch"} ELSE {}
      fixed(child, value, fix) ==
        IF CPLUS_FAKE_CHILD(os, child)
        THEN [value |-> lazy(value), type_changed |-> "UNCHANGED", objs |-> os,
              accesses |-> {"child"} \cup fetch(value)]
        ELSE IF fix.dynamic_type # os[child].dynamic_type
        THEN [value |-> lazy(fix.value), type_changed |-> "DYNAMIC_TYPE_CHANGED",
              objs |-> [os EXCEPT ![child].dynamic_type = fix.dynamic_type],
              accesses |-> {"child", "child_rtti"} \cup fetch(fix.value)]
        ELSE [value |-> lazy(fix.value), type_changed |-> "UNCHANGED", objs |-> os,
              accesses |-> {"child", "child_rtti"} \cup fetch(fix.value)]
      got(value) ==
        IF value.null
        THEN [value |-> NullValue, type_changed |-> "UNCHANGED", objs |-> os,
              accesses |-> {"child"}]
        ELSE fixed(child_exists(os, parent, index), value, varobj_fixup_value(t, value))
  IN got(lang_value_of_child(t, os, parent, index))

\* type_of_child: the child has no value yet when create_child asks
type_of_child(os, child) ==
  IF ~os[child].value.null THEN os[child].value.type
  ELSE lang_type_of_child(os, os[child].parent, os[child].index)

\* create_child: ok = FALSE when install_variable raises the duplicate-name
\* error (the half-made child is then lost)
create_child(t, st, parent, index, name) ==
  LET child == NewAddr(st.objs)
      p == st.objs[parent]
      rec == [new_variable EXCEPT
                !.name = name, !.index = index, !.parent = parent,
                !.root = p.root,
                !.obj_name = p.obj_name \o str_dot \o name,
                !.fake_child = (variable_language(st.objs, parent) = "cplus"
                                /\ name \in {str_private, str_public, str_protected})]
      valued(inst, vc) ==
        [ok |-> TRUE, child |-> child,
         st |-> Access([inst.st EXCEPT
                   !.objs = [vc.objs EXCEPT
                               ![child].value = vc.value,
                               ![child].error =
                                 (~CPLUS_FAKE_CHILD(vc.objs, child) /\ vc.value.null)
                                 \/ p.error]], vc.accesses)]
      typed(inst, os) ==
        valued(inst, value_of_child(t, [os EXCEPT ![child].type = type_of_child(os, child)],
                                    parent, index))
      installed(inst) ==
        IF ~inst.ok THEN [ok |-> FALSE, st |-> st, child |-> NoObj]
        ELSE typed(inst, save_child_in_parent(inst.st.objs, parent, child))
  IN installed(install_variable([st EXCEPT !.objs = Put(st.objs, child, rec)], child))

RECURSIVE list_children_loop(_, _, _, _, _)

\* the loop of varobj_list_children from index i on; acc = [ok, st, childlist]
list_children_loop(t, acc, var, i, n) ==
  LET had(child) == [acc EXCEPT !.childlist = Append(@, child)]
      made(m) == [ok |-> m.ok, st |-> m.st,
                  childlist |-> IF m.ok THEN Append(acc.childlist, m.child)
                                ELSE acc.childlist]
      step(child) ==
        IF child # NoObj THEN had(child)
        ELSE made(create_child(t, acc.st, var, i, make_name_of_child(acc.st.objs, var, i)))
  IN IF i >= n \/ ~acc.ok THEN acc
     ELSE list_children_loop(t, step(child_exists(acc.st.objs, var, i)), var, i + 1, n)

\* varobj_list_children: ok = FALSE when an error () left it half-way
varobj_list_children(t, st, var) ==
  LET done(r, n) == [ok |-> r.ok, st |-> r.st, childlist |-> r.childlist, ret |-> n]
      counted(n) ==
        done(list_children_loop(t, [ok |-> TRUE,
                                    st |-> [st EXCEPT !.objs[var].num_children = n],
                                    childlist |-> <<>>], var, 0, n), n)
  IN counted(IF st.objs[var].num_children = -1
             THEN number_of_children(st.objs, var)
             ELSE st.objs[var].num_children)

\* varobj_get_num_children: -1 for a root without expression, else the
\* cached count, computed when it is -1
varobj_get_num_children(st, var) ==
  IF RootOf(st.objs, var).exp = NoExp THEN [ret |-> -1, st |-> st]
  ELSE IF st.objs[var].num_children = -1
  THEN [ret |-> number_of_children(st.objs, var),
        st |-> [st EXCEPT !.objs[var].num_children = number_of_children(st.objs, var)]]
  ELSE [ret |-> st.objs[var].num_children, st |-> st]

-----------------------------------------------------------------------------
(* Path expressions *)

str_lparen == <<40>>
str_rparen == <<41>>
str_arrow == <<45, 62>>
str_bogus == <<63, 63, 63, 63>>         \* "????"

\* a path expression that dereferences the parent, whatever its type
PathDerefMutant(type, parent_expr, name) ==
  str_star \o str_lparen \o parent_expr \o str_rparen

\* c_path_expr_of_child, the sprintf of each case: type is get_type
\* (parent)
c_path_expr_format(type, parent_expr, name) ==
  CASE TYPE_CODE(type) \in {"STRUCT", "UNION"} ->
         str_lparen \o parent_expr \o str_rparen \o str_dot \o name
    [] TYPE_CODE(type) = "PTR" ->
         (IF TYPE_CODE(get_target_type(type)) \in {"STRUCT", "UNION"}
          THEN str_lparen \o parent_expr \o str_rparen \o str_arrow \o name
          ELSE str_star \o str_lparen \o parent_expr \o str_rparen)
    [] OTHER -> str_bogus

\* cplus_real_type_index_for_fake_child_index: the index in the class of
\* the num'th field of the level called prot, -1 for none
cplus_real_type_index_for_fake_child_index(class, prot, num) ==
  LET level(i) == IF TYPE_FIELD_PROTECTED(class, i) THEN str_protected
                  ELSE IF TYPE_FIELD_PRIVATE(class, i) THEN str_private
                  ELSE str_public
      counted == {i \in TYPE_N_BASECLASSES(class)..(CLASS_NFIELDS(class) - 1) :
                    /\ ~(class.vptr_basetype_self /\ class.vptr_fieldno = i)
                    /\ level(i) = prot}
      hits == {i \in counted : Cardinality({j \in counted : j < i}) = num}
  IN IF hits = {} THEN -1 ELSE CHOOSE i \in hits : TRUE

RECURSIVE path_expr_of_variable(_, _)
\* path_expr_of_variable with path_expr_of_child through the root's lang:
\* the text, without the caching
path_expr_of_variable(os, var) ==
  LET o == os[var]
      parent == o.parent
      index == o.index
      parent_expr == path_expr_of_variable(os, parent)
      c_path == c_path_expr_format(get_type(os[parent]), parent_expr, o.name)
      type == cplus_class_type(os, parent)
      class == ClassOf(type)
      holder == IF CPLUS_FAKE_CHILD(os, parent) THEN os[os[parent].parent] ELSE os[parent]
      is_ptr == get_type(holder) # NoType /\ TYPE_CODE(get_type(holder)) \in {"PTR", "REF"}
      field == TYPE_FIELDS(type)[
                 cplus_real_type_index_for_fake_child_index(class, os[parent].name, index)
                 + 1].name
      base == TYPE_FIELDS(type)[index + 1].name
      kids == cplus_class_num_children(class)
      rest == index - TYPE_N_BASECLASSES(class)
      cplus_path ==
        IF CPLUS_FAKE_CHILD(os, var) THEN parent_expr
        ELSE IF type # NoType /\ TYPE_CODE(type) \in {"STRUCT", "UNION"}
        THEN IF CPLUS_FAKE_CHILD(os, parent)
             THEN IF is_ptr
                  THEN str_lparen \o parent_expr \o str_rparen \o str_arrow \o field
                  ELSE str_lparen \o parent_expr \o str_rparen \o str_dot \o field
             ELSE IF index < TYPE_N_BASECLASSES(class)
             THEN IF is_ptr
                  THEN <<40, 40>> \o base \o <<32, 42, 41, 32>> \o parent_expr \o str_rparen
                  ELSE <<40, 40>> \o base \o <<41, 32>> \o parent_expr \o str_rparen
             ELSE IF rest <= 0 /\ kids[v_public] # 0 THEN str_public
             ELSE IF rest <= 1 /\ kids[v_private] # 0 THEN str_private
             ELSE IF rest <= 2 /\ kids[v_protected] # 0 THEN str_protected
             ELSE c_path
        ELSE c_path
  IN IF o.path_expr # NoName THEN o.path_expr
     ELSE IF is_root_p(os, var) THEN o.name
     ELSE IF RootOf(os, var).lang \in {"cplus", "java"} THEN cplus_path
     ELSE c_path

RECURSIVE cache_path_exprs(_, _)
\* what the calls under path_expr_of_variable store: c_path_expr_of_child
\* and cplus_path_expr_of_child set child->path_expr to the text they
\* made, for the object and for each ancestor they had to ask; a fake child
\* gets its parent's text back and keeps none
cache_path_exprs(os, var) ==
  LET up == cache_path_exprs(os, os[var].parent)
  IN IF os[var].path_expr # NoName \/ is_root_p(os, var) THEN os
     ELSE IF RootOf(os, var).lang \in {"cplus", "java"} /\ CPLUS_FAKE_CHILD(os, var) THEN up
     ELSE [up EXCEPT ![var].path_expr = path_expr_of_variable(os, var)]

\* varobj_get_path_expr
varobj_get_path_expr(st, var) ==
  [ret |-> path_expr_of_variable(st.objs, var),
   st |-> [st EXCEPT !.objs = cache_path_exprs(st.objs, var)]]

RECURSIVE ClosingParen(_, _, _)
\* the index of the parenthesis that closes the one before text[i], 0 for
\* none
ClosingParen(text, i, depth) ==
  IF i > Len(text) THEN 0
  ELSE IF text[i] = 41 THEN (IF depth = 0 THEN i ELSE ClosingParen(text, i + 1, depth - 1))
  ELSE IF text[i] = 40 THEN ClosingParen(text, i + 1, depth + 1)
  ELSE ClosingParen(text, i + 1, depth)

NoPath == [ok |-> FALSE, sym |-> "", type |-> NoType, reads |-> FALSE]

RECURSIVE ParsePath(_, _)
\* gdb's parser and type checker on the expressions c_path_expr_of_child
\* writes, in the block blk: (e).name, (e)->name, *(e), (e) and the texts
\* gdb_parse_exp_1 knows.  sym is the variable the expression starts from,
\* type its static type, reads tells whether evaluating it reads a pointer
\* out of the debuggee
ParsePath(text, blk) ==
  LET close == ClosingParen(text, 2, 0)
      inner == ParsePath(SubSeq(text, 2, close - 1), blk)
      rest == SubSeq(text, close + 1, Len(text))
      name == IF Len(rest) >= 2 /\ SubSeq(rest, 1, 2) = str_arrow
              THEN SubSeq(rest, 3, Len(rest))
              ELSE SubSeq(rest, 2, Len(rest))
      target == TYPE_TARGET_TYPE(inner.type)
      plain == gdb_parse_exp_1(text, blk)
      member(of, rd) ==
        IF lookup_struct_elt_type(of, name) = NoType THEN NoPath
        ELSE [ok |-> TRUE, sym |-> inner.sym, type |-> lookup_struct_elt_type(of, name),
              reads |-> rd]
  IN IF text = <<>> THEN NoPath
     ELSE IF text[1] = 42
     THEN LET e == ParsePath(SubSeq(text, 2, Len(text)), blk)
          IN IF e.ok /\ TYPE_CODE(e.type) = "PTR"
             THEN [ok |-> TRUE, sym |-> e.sym, type |-> TYPE_TARGET_TYPE(e.type),
                   reads |-> TRUE]
             ELSE NoPath
     ELSE IF text[1] = 40
     THEN IF close = 0 \/ ~inner.ok THEN NoPath
          ELSE IF rest = <<>> THEN inner
          ELSE IF Len(rest) >= 3 /\ SubSeq(rest, 1, 2) = str_arrow
          THEN IF TYPE_CODE(inner.type) = "PTR" /\ TYPE_CODE(target) = "STRUCT"
               THEN member(target, TRUE)
               ELSE NoPath
          ELSE IF Len(rest) >= 2 /\ rest[1] = 46
          THEN IF TYPE_CODE(inner.type) = "STRUCT" THEN member(inner.type, inner.reads)
               ELSE NoPath
          ELSE NoPath
     ELSE IF plain.ok /\ plain.exp.sym # "lit"
     THEN [ok |-> TRUE, sym |-> plain.exp.sym, type |-> plain.exp.type, reads |-> FALSE]
     ELSE NoPath

\* the value of compiling text in blk and evaluating it now: NULL when it
\* does not compile or the evaluation faults, else a lazy value of the
\* expression's type
EvaluatePath(t, text, blk) ==
  LET p == ParsePath(text, blk)
  IN IF p.ok /\ t.evalOK /\ (p.sym = "xB" => t.f1live) /\ (p.reads => t.memOK)
     THEN MkValue(p.type, TRUE, 0)
     ELSE NullValue

-----------------------------------------------------------------------------
(* Roots *)

\* a scope check that takes the end address of the block as inside
PcUpToEndMutant(t, r) ==
  IF r.valid_block = NoBlock THEN TRUE
  ELSE LET fi == frame_find_by_id(t, r.frame)
       IN IF fi # null_frame_id
          THEN ~(get_frame_pc(t, fi) < r.valid_block.startaddr
                 \/ get_frame_pc(t, fi) > r.valid_block.endaddr)
          ELSE FALSE

\* varobj_pc_in_valid_block_p, of the root record r
varobj_pc_in_valid_block_p(t, r) ==
  IF r.valid_block = NoBlock THEN TRUE
  ELSE LET fi == frame_find_by_id(t, r.frame)
       IN IF fi # null_frame_id
          THEN ~(get_frame_pc(t, fi) < r.valid_block.startaddr
                 \/ get_frame_pc(t, fi) >= r.valid_block.endaddr)
          ELSE FALSE

\* find_frame_addr_in_frame_chain: the live frame at this address, or
\* null_frame_id for NULL (frames are told by their ids here)
find_frame_addr_in_frame_chain(t, frame) ==
  IF frame = 0 THEN null_frame_id ELSE frame_find_by_id(t, frame)

\* varobj_create (objname, expression, frame, block, type); objname =
\* NoName makes a temporary.  status: "ok", "null" (error_cleanup) or "dup"
\* (the error install_variable raises, that unwinds through the cleanups
\* made here); var = NoObj unless "ok".  The selected frame is selected
\* again before returning.
varobj_create(t, st, sel, objname, expression, frame, block, type) ==
  LET var == NewAddr(st.objs)
      old_chain == Len(st.cleanup_chain)
      schedlock_chain == old_chain + 1
      s1 == IF ~st.varobj_runs_all_threads
            THEN make_cleanup_set_restore_scheduler_locking_mode(
                   make_cleanup(st, "free_variable"), "on")
            ELSE make_cleanup(make_cleanup(st, "free_variable"), "null_cleanup")
      fi == IF type \in {"USE_CURRENT_FRAME", "USE_SELECTED_FRAME", "USE_BLOCK_IN_FRAME"}
            THEN sel
            ELSE IF type = "NO_FRAME_NEEDED" THEN null_frame_id
            ELSE find_frame_addr_in_frame_chain(t, frame)
      use_sel == (type = "USE_SELECTED_FRAME")
      blk == IF block = NoBlock /\ fi # null_frame_id
             THEN get_frame_block(t, fi) ELSE block
      parse == gdb_parse_exp_1(expression, blk)
      r0 == [new_variable EXCEPT
               !.root = var, !.use_selected_frame = use_sel,
               !.exp = parse.exp, !.valid_block = parse.innermost_block,
               !.name = expression, !.path_expr = expression]
      r1 == IF fi # null_frame_id THEN [r0 EXCEPT !.frame = fi] ELSE r0
      ev == gdb_evaluate_expression(t, r1.exp)
      fix == varobj_fixup_value(t, ev.value)
      fetched == IF fix.value.lazy THEN gdb_value_fetch_lazy(t, fix.value).value
                 ELSE fix.value
      ty == gdb_evaluate_type(r1.exp)
      r2 == IF (use_sel \/ varobj_pc_in_valid_block_p(t, r1)
                \/ type = "NO_FRAME_NEEDED") /\ ev.ok
            THEN [r1 EXCEPT !.in_scope = TRUE, !.type = ev.value.type,
                            !.dynamic_type = fix.dynamic_type, !.value = fetched]
            ELSE [r1 EXCEPT !.in_scope = FALSE, !.type = ty.value.type,
                            !.value = ty.value]
      r3 == IF parse.ok THEN [r2 EXCEPT !.lang = exp_language(parse.exp)] ELSE r0
      r4 == [r3 EXCEPT !.obj_name = objname]
      s2 == Access(s1, {"parse"})
      s3 == IF ~parse.ok THEN s2
            ELSE IF (use_sel \/ varobj_pc_in_valid_block_p(t, r1)
                     \/ type = "NO_FRAME_NEEDED")
            THEN IF ev.ok
                 THEN Access(s2, {"evaluate", "rtti"}
                                 \cup IF fix.value.lazy THEN {"fetch"} ELSE {})
                 ELSE Access(s2, {"evaluate", "evaluate_type"})
            ELSE Access(s2, {"evaluate_type"})
      st1 == [s3 EXCEPT !.objs = Put(st.objs, var, r4)]
      inst == install_variable(st1, var)
  IN IF block = NoBlock /\ type \in {"USE_BLOCK_IN_FRAME", "NO_FRAME_NEEDED"}
     THEN [status |-> "null", var |-> NoObj, st |-> do_cleanups(s1, old_chain)]
     ELSE IF ~parse.ok /\ ~use_sel
     THEN [status |-> "null", var |-> NoObj, st |-> do_cleanups(s2, old_chain)]
     ELSE IF objname = NoName
     THEN [status |-> "ok", var |-> var,
           st |-> discard_cleanups(do_cleanups(st1, schedlock_chain), old_chain)]
     ELSE IF ~inst.ok
     THEN [status |-> "dup", var |-> NoObj, st |-> do_cleanups(s3, old_chain)]
     ELSE [status |-> "ok", var |-> var,
           st |-> discard_cleanups(do_cleanups(inst.st, schedlock_chain), old_chain)]

\* varobj_type_is_equal_p: by the printed name of the static types
varobj_type_is_equal_p(old_var, new_var) ==
  IF old_var.type = NoType \/ new_var.type = NoType THEN FALSE
  ELSE old_var.type = new_var.type

\* c_value_of_root, the lazy fetch at its end
c_value_of_root_fetch(t, st, sel, var, type_changed, value) ==
  LET f == gdb_value_fetch_lazy(t, value)
  IN IF value.lazy
     THEN [value |-> f.value, type_changed |-> type_changed,
           st |-> Access([st EXCEPT !.objs[var].error = ~f.ok], {"fetch"}), sel |-> sel]
     ELSE [value |-> value, type_changed |-> type_changed, st |-> st, sel |-> sel]

\* c_value_of_root, the dynamic type has changed: the children go, the
\* number of children is counted again
c_value_of_root_retype(st, var, dynamic_type) ==
  LET del == varobj_delete([st EXCEPT !.objs[var].dynamic_type = dynamic_type], var, TRUE)
  IN [del.st EXCEPT !.objs[var].num_children = number_of_children(del.st.objs, var)]

\* c_value_of_root, after gdb_evaluate_expression
c_value_of_root_evaluated(t, st, sel, var, type_changed, ev, fix) ==
  IF ~ev.ok
  THEN [value |-> NullValue, type_changed |-> type_changed,
        st |-> [st EXCEPT !.objs[var].error = TRUE], sel |-> sel]
  ELSE c_value_of_root_fetch(t,
         IF st.objs[var].dynamic_type # fix.dynamic_type
         THEN c_value_of_root_retype(Access(st, {"rtti"}), var, fix.dynamic_type)
         ELSE Access(st, {"rtti"}),
         sel, var,
         IF st.objs[var].dynamic_type # fix.dynamic_type
         THEN "DYNAMIC_TYPE_CHANGED" ELSE type_changed,
         fix.value)

\* c_value_of_root, the end of the block that evaluates
c_value_of_root_unlock(res, schedlock_chain) ==
  [res EXCEPT !.st = do_cleanups(@, schedlock_chain)]

\* c_value_of_root: [value, type_changed, st, sel]; selects the root's frame
c_value_of_root(t, st, sel, var, type_changed) ==
  LET r == st.objs[var]
      fi == frame_find_by_id(t, r.frame)
  IN IF r.valid_block # NoBlock /\ fi = null_frame_id
     THEN [value |-> NullValue, type_changed |-> type_changed, st |-> st, sel |-> sel]
     ELSE c_value_of_root_unlock(
            c_value_of_root_evaluated(t,
              Access(make_cleanup_set_restore_scheduler_locking_mode(st, "on"),
                     {"evaluate"}),
              IF r.valid_block # NoBlock THEN fi ELSE sel,
              var, type_changed, gdb_evaluate_expression(t, r.exp),
              varobj_fixup_value(t, gdb_evaluate_expression(t, r.exp).value)),
            Len(st.cleanup_chain))

\* a value_of_root that lets the temporary take the place of the root
\* without installing it
ReplaceUninstalledMutant(st, var, c) ==
  IF c.var = NoObj
  THEN [ok |-> FALSE, st |-> WithLocking(st, c.st), var |-> var,
        type_changed |-> "TYPE_CHANGED"]
  ELSE [ok |-> TRUE,
        st |-> varobj_delete([c.st EXCEPT !.objs[c.var].obj_name = st.objs[var].obj_name],
                             var, FALSE).st,
        var |-> c.var, type_changed |-> "TYPE_CHANGED"]

\* a value_of_root that leaves the temporary of a matching type where it is
ReparseKeepsTemporaryMutant(st, var, c) ==
  LET r == st.objs[var]
      tmp == c.st.objs[c.var]
  IN IF c.var = NoObj
     THEN [ok |-> FALSE, st |-> WithLocking(st, c.st), var |-> var,
           type_changed |-> "TYPE_CHANGED"]
     ELSE IF tmp.exp = NoExp \/ tmp.type = NoType
     THEN [ok |-> FALSE, st |-> WithLocking(st, c.st), var |-> var,
           type_changed |-> "TYPE_CHANGED"]
     ELSE IF varobj_type_is_equal_p(tmp, r)
     THEN [ok |-> TRUE, st |-> c.st, var |-> var, type_changed |-> "UNCHANGED"]
     ELSE [ok |-> TRUE,
           st |-> install_variable(
                    varobj_delete([c.st EXCEPT !.objs[c.var].obj_name = r.obj_name],
                                  var, FALSE).st, c.var).st,
           var |-> c.var, type_changed |-> "TYPE_CHANGED"]

\* value_of_root, with the temporary c made from the root's expression:
\* [ok, st, var, type_changed], ok = FALSE where value_of_root returns NULL
value_of_root_reparsed(st, var, c) ==
  LET r == st.objs[var]
      tmp == c.st.objs[c.var]
      shadowed == r.valid_block # NoBlock /\ tmp.valid_block # NoBlock
                  /\ (r.valid_block.startaddr # tmp.valid_block.startaddr
                      \/ r.valid_block.endaddr # tmp.valid_block.endaddr)
      taken == IF varobj_type_is_equal_p(tmp, r)
               THEN IF shadowed
                    THEN [c.st EXCEPT !.objs[var].valid_block = tmp.valid_block]
                    ELSE c.st
               ELSE [c.st EXCEPT !.objs[c.var].obj_name = r.obj_name]
      del == varobj_delete(taken, IF varobj_type_is_equal_p(tmp, r) THEN c.var ELSE var,
                           FALSE)
  IN IF c.var = NoObj
     THEN [ok |-> FALSE, st |-> WithLocking(st, c.st), var |-> var,
           type_changed |-> "TYPE_CHANGED"]
     ELSE IF tmp.exp = NoExp \/ tmp.type = NoType
     THEN [ok |-> FALSE, st |-> WithLocking(st, c.st), var |-> var,
           type_changed |-> "TYPE_CHANGED"]
     ELSE IF varobj_type_is_equal_p(tmp, r)
     THEN [ok |-> TRUE, st |-> del.st, var |-> var, type_changed |-> "UNCHANGED"]
     ELSE [ok |-> TRUE, st |-> install_variable(del.st, c.var).st, var |-> c.var,
           type_changed |-> "TYPE_CHANGED"]

\* value_of_root up to the call through the language vector
value_of_root_prepare(t, st, sel, var) ==
  IF st.objs[var].use_selected_frame \/ get_type(st.objs[var]) = NoType
  THEN value_of_root_reparsed(st, var,
         varobj_create(t, st, sel, NoName, st.objs[var].name, 0, NoBlock,
                       "USE_SELECTED_FRAME"))
  ELSE [ok |-> varobj_pc_in_valid_block_p(t, st.objs[var]), st |-> st, var |-> var,
        type_changed |-> "UNCHANGED"]

value_of_root_call(t, sel, prep) ==
  IF ~prep.ok
  THEN [value |-> NullValue, type_changed |-> prep.type_changed, st |-> prep.st,
        sel |-> sel, var |-> prep.var]
  ELSE [var |-> prep.var]
       @@ c_value_of_root(t, prep.st, sel, prep.var, prep.type_changed)

\* value_of_root: [value, type_changed, st, sel, var]; var is *var_handle
\* afterwards
value_of_root(t, st, sel, var) ==
  value_of_root_call(t, sel, value_of_root_prepare(t, st, sel, var))


\* varobj_gen_name, with n the static id: id++; xasprintf ("var%d", id)
varobj_gen_name(n) == [id |-> n + 1, obj_name |-> str_var \o Decimal(n + 1)]

-----------------------------------------------------------------------------
(* Assignment and update *)

\* varobj_set_value: [ret, st, t]
varobj_set_value(t, st, var, expression) ==
  LET o == st.objs[var]
      parse == gdb_parse_exp_1(expression, NoBlock)
      ev == gdb_evaluate_expression(t, parse.exp)
      eq == my_value_equal(t, o.value, ev.value)
      schedlock_chain == Len(st.cleanup_chain)
      s0 == make_cleanup_set_restore_scheduler_locking_mode(st, "on")
      s1 == Access([s0 EXCEPT !.input_radix = 10], {"parse"})
      s2 == Access(s1, {"evaluate"})
      st1 == Access(IF ~eq.r THEN [s2 EXCEPT !.objs[var].updated = TRUE] ELSE s2,
                    {"assign"})
      as == gdb_value_assign(t, o.value, ev.value)
  IN IF ~o.value.null /\ variable_editable(st.objs, var) /\ ~o.error
     THEN IF ~parse.ok
          THEN [ret |-> 0, st |-> do_cleanups(s1, schedlock_chain), t |-> t]
          ELSE IF ~ev.ok
          THEN [ret |-> 0, st |-> do_cleanups(s2, schedlock_chain), t |-> t]
          ELSE IF ~as.ok
          THEN [ret |-> 0, st |-> do_cleanups(st1, schedlock_chain), t |-> t]
          ELSE [ret |-> 1,
                st |-> do_cleanups([value_free(st1, var) EXCEPT
                                      !.objs[var].value = as.val,
                                      !.input_radix = st.input_radix],
                                   schedlock_chain),
                t |-> as.t]
     ELSE [ret |-> 1, st |-> do_cleanups(s0, schedlock_chain), t |-> t]

\* a changelist entry
ChangeEntry(os, v, type_changed) ==
  [var |-> v, obj_name |-> os[v].obj_name, type_changed |-> type_changed]

\* varobj_changelist_init: head = tail = NULL
varobj_changelist_init == <<>>

\* an entry that is linked in at the head
AddAtHeadMutant(changelist, entry) == <<entry>> \o changelist

\* varobj_add_to_changelist: the entry is linked in behind the tail
varobj_add_to_changelist(changelist, entry) == Append(changelist, entry)

\* a pop that unlinks the entry after the head along with the head
PopUnlinksTwoMutant(changelist) ==
  IF changelist = <<>>
  THEN [v |-> NoObj, type_changed |-> "UNCHANGED", changelist |-> <<>>]
  ELSE [v |-> Head(changelist).var, type_changed |-> Head(changelist).type_changed,
        changelist |-> IF Len(changelist) >= 2 THEN Tail(Tail(changelist)) ELSE <<>>]

\* varobj_changelist_pop: the varobj at the head and its tag, NoObj when
\* the list is empty
varobj_changelist_pop(changelist) ==
  IF changelist = <<>>
  THEN [v |-> NoObj, type_changed |-> "UNCHANGED", changelist |-> <<>>]
  ELSE [v |-> Head(changelist).var, type_changed |-> Head(changelist).type_changed,
        changelist |-> Tail(changelist)]

RECURSIVE PopChanges(_)
\* the caller pops until varobj_changelist_pop returns NULL: what it got
PopChanges(changelist) ==
  LET p == varobj_changelist_pop(changelist)
  IN IF p.v = NoObj THEN <<>>
     ELSE <<[var |-> p.v, type_changed |-> p.type_changed]>> \o PopChanges(p.changelist)

\* vpush of every child of v, in the order of v's child list; the top of
\* the stack is the end of the sequence
PushChildren(stack, os, v) == stack \o os[v].children

\* a turn that keeps the children of a child whose type changed, and walks
\* them
UpdateChildKeepsMutant(c, v, voc, noted, error2) ==
  LET os2 == [voc.objs EXCEPT ![v].updated = IF noted THEN FALSE ELSE @,
                              ![v].error = error2,
                              ![v].value = voc.value]
  IN [c EXCEPT
        !.st = Access([value_free(c.st, v) EXCEPT !.objs = os2], voc.accesses),
        !.stack = PushChildren(SubSeq(c.stack, 1, Len(c.stack) - 1), os2, v),
        !.result = IF noted
                   THEN varobj_add_to_changelist(@, ChangeEntry(os2, v, voc.type_changed))
                   ELSE @,
        !.changed = IF noted THEN @ + 1 ELSE @,
        !.error2 = error2,
        !.visited = Append(@, v)]

\* a turn that deletes a child whose type changed along with its children
UpdateChildDeletesSelfMutant(c, v, voc, noted, error2) ==
  LET os2 == [voc.objs EXCEPT ![v].updated = IF noted THEN FALSE ELSE @,
                              ![v].error = error2,
                              ![v].value = voc.value]
      st2 == Access([value_free(c.st, v) EXCEPT !.objs = os2], voc.accesses)
  IN [c EXCEPT
        !.st = IF voc.type_changed = "UNCHANGED" THEN st2
               ELSE varobj_delete(st2, v, FALSE).st,
        !.stack = IF voc.type_changed = "UNCHANGED"
                  THEN PushChildren(SubSeq(c.stack, 1, Len(c.stack) - 1), os2, v)
                  ELSE SubSeq(c.stack, 1, Len(c.stack) - 1),
        !.result = IF noted
                   THEN varobj_add_to_changelist(@, ChangeEntry(os2, v, voc.type_changed))
                   ELSE @,
        !.changed = IF noted THEN @ + 1 ELSE @,
        !.error2 = error2,
        !.visited = Append(@, v)]

\* one turn of the while loop of varobj_update, after value_of_child: the
\* child v is noted, its error and value are stored, its children are
\* pushed or deleted
update_child_store(c, v, voc, noted, error2) ==
  LET os2 == [voc.objs EXCEPT ![v].updated = IF noted THEN FALSE ELSE @,
                              ![v].error = error2,
                              ![v].value = voc.value]
      st2 == Access([value_free(c.st, v) EXCEPT !.objs = os2], voc.accesses)
  IN [c EXCEPT
        !.st = IF voc.type_changed = "UNCHANGED" THEN st2
               ELSE varobj_delete(st2, v, TRUE).st,
        !.stack = IF voc.type_changed = "UNCHANGED"
                  THEN PushChildren(SubSeq(c.stack, 1, Len(c.stack) - 1), os2, v)
                  ELSE SubSeq(c.stack, 1, Len(c.stack) - 1),
        !.result = IF noted
                   THEN varobj_add_to_changelist(@, ChangeEntry(os2, v, voc.type_changed))
                   ELSE @,
        !.changed = IF noted THEN @ + 1 ELSE @,
        !.error2 = error2,
        !.visited = Append(@, v)]

\* the test of one turn: eq is my_value_equal's answer, used where the
\* code gets as far as calling it
update_child(c, v, voc, chg, eq) ==
  update_child_store(c, v, voc,
    voc.type_changed # "UNCHANGED" \/ c.came_in_scope
    \/ (chg /\ (c.st.objs[v].updated \/ ~eq.r)),
    IF voc.type_changed = "UNCHANGED" /\ ~c.came_in_scope
       /\ chg /\ ~c.st.objs[v].updated
    THEN eq.error2 ELSE c.error2)

update_child_value(t, c, v, voc) ==
  update_child(c, v, voc, varobj_value_is_changeable_p(voc.objs, v),
               my_value_equal(t, c.st.objs[v].value, voc.value))

RECURSIVE update_walk(_, _)
\* the while loop of varobj_update over the stack of children.
\* c = [st, stack, result, changed, error2, came_in_scope, visited]
update_walk(t, c) ==
  IF c.stack = <<>> THEN c
  ELSE update_walk(t,
         update_child_value(t, c, c.stack[Len(c.stack)],
           value_of_child(t, c.st.objs, c.st.objs[c.stack[Len(c.stack)]].parent,
                          c.st.objs[c.stack[Len(c.stack)]].index)))

\* an end of varobj_update that lists the children of the root
UpdateListsMutant(t, sel, vr, typed, w) ==
  [ret |-> IF typed THEN -2 ELSE w.changed, set |-> TRUE,
   changelist |-> w.result, st |-> varobj_list_children(t, w.st, vr.var).st,
   sel |-> sel, var |-> vr.var, visited |-> w.visited]

\* varobj_update, the end: the selected frame is selected again
update_done(t, sel, vr, typed, w) ==
  [ret |-> IF typed THEN -2 ELSE w.changed, set |-> TRUE,
   changelist |-> w.result, st |-> w.st,
   sel |-> IF frame_find_by_id(t, sel) # null_frame_id
           THEN frame_find_by_id(t, sel) ELSE vr.sel,
   var |-> vr.var, visited |-> w.visited]

\* varobj_update, the root is noted and the children are walked
update_root_store(t, sel, vr, came_in_scope, typed, noted, error2) ==
  LET os2 == [vr.st.objs EXCEPT ![vr.var].in_scope = TRUE,
                                ![vr.var].error = IF noted THEN error2 ELSE FALSE,
                                ![vr.var].updated = IF noted THEN FALSE ELSE @,
                                ![vr.var].value = vr.value]
  IN update_done(t, sel, vr, typed,
       update_walk(t,
         [st |-> [value_free(vr.st, vr.var) EXCEPT !.objs = os2],
          stack |-> PushChildren(<<>>, os2, vr.var),
          result |-> IF typed \/ noted
                     THEN varobj_add_to_changelist(varobj_changelist_init,
                            ChangeEntry(os2, vr.var, vr.type_changed))
                     ELSE varobj_changelist_init,
          changed |-> IF typed \/ noted THEN 1 ELSE 0,
          error2 |-> error2,
          came_in_scope |-> came_in_scope,
          visited |-> <<>>]))

\* varobj_update, the test of the root; junk is what the uninitialized
\* error2 holds
update_root(t, sel, vr, r, typed, chg, eq, junk) ==
  update_root_store(t, sel, vr, ~r.in_scope, typed,
    ~typed /\ (~r.in_scope \/ (chg /\ (r.updated \/ ~eq.r))),
    IF ~typed /\ r.in_scope /\ chg /\ ~r.updated THEN eq.error2 ELSE junk)

\* varobj_update, after value_of_root
update_rooted(t, sel, vr, r, junk) ==
  IF vr.value.null
  THEN [ret |-> IF r.in_scope THEN -3 ELSE 0, set |-> FALSE, changelist |-> <<>>,
        st |-> [vr.st EXCEPT !.objs[vr.var].error = TRUE,
                             !.objs[vr.var].in_scope = FALSE],
        sel |-> vr.sel, var |-> vr.var, visited |-> <<>>]
  ELSE update_root(t, sel, vr, r, vr.type_changed # "UNCHANGED",
                   varobj_value_is_changeable_p(vr.st.objs, vr.var),
                   my_value_equal(t, r.value, vr.value), junk)

update_valued(t, sel, vr, junk) == update_rooted(t, sel, vr, vr.st.objs[vr.var], junk)

\* varobj_update: [ret, set, changelist, st, sel, var, visited]; set tells
\* whether *changelist was stored, var is *varp afterwards
varobj_update(t, st, sel, varp, junk) ==
  IF ~is_root_p(st.objs, varp)
  THEN [ret |-> -1, set |-> FALSE, changelist |-> <<>>, st |-> st, sel |-> sel,
        var |-> varp, visited |-> <<>>]
  ELSE update_valued(t, sel, value_of_root(t, st, sel, varp), junk)

-----------------------------------------------------------------------------
(* The state machine: the front end's calls and the debuggee's steps       *)

TheStore ==
  Store(objs, varobj_table, rootlist, rootcount)
  @@ [scheduler_mode |-> scheduler_mode,
      input_radix |-> input_radix,
      varobj_runs_all_threads |-> varobj_runs_all_threads,
      cleanup_chain |-> <<>>, accesses |-> {}, value_frees |-> <<>>]

\* the object names in the hash table
RegisteredNames(st) ==
  UNION {{st.objs[st.table[i][j]].obj_name : j \in 1..Len(st.table[i])} :
           i \in DOMAIN st.table}

RECURSIVE Descendants(_, _)
\* the materialized descendants of v
Descendants(os, v) ==
  LET kids == {os[v].children[i] : i \in 1..Len(os[v].children)}
  IN kids \cup UNION {Descendants(os, k) : k \in kids}

DescNames(os, v) == {os[d].obj_name : d \in Descendants(os, v)}

\* what a front end does in one session: the names and expressions it
\* uses, and which parts of the debuggee move while it watches
RegistrySession ==
  [id |-> "registry", names |-> {str_v, str_v_a}, exprs |-> {str_g, str_s},
   kinds |-> {"USE_CURRENT_FRAME"}, texts |-> {}, moves |-> {},
   roots |-> MaxRoots, deep |-> FALSE]

\* two names that hash to the same bucket
CollideSession ==
  [id |-> "collide", names |-> {str_cb, str_ac}, exprs |-> {str_g},
   kinds |-> {"USE_CURRENT_FRAME"}, texts |-> {}, moves |-> {},
   roots |-> MaxRoots, deep |-> FALSE]

\* children are deleted one by one, too
PruneSession ==
  [id |-> "prune", names |-> {str_v}, exprs |-> {str_s},
   kinds |-> {"USE_CURRENT_FRAME"}, texts |-> {}, moves |-> {},
   roots |-> 1, deep |-> TRUE]

ScalarSession ==
  [id |-> "scalar", names |-> {str_v}, exprs |-> {str_g},
   kinds |-> {"USE_CURRENT_FRAME"},
   texts |-> {str_lit(n) : n \in 0..MaxVal} \cup {str_bad},
   moves |-> {"val", "eval", "mem"}, roots |-> 1, deep |-> FALSE]

ScopeSession ==
  [id |-> "scope", names |-> {str_v}, exprs |-> {str_x},
   kinds |-> {"USE_CURRENT_FRAME", "USE_SELECTED_FRAME"},
   texts |-> {}, moves |-> {"frame", "eval"}, roots |-> 1, deep |-> FALSE]

\* roots made in each kind of evaluation context, of an expression that
\* compiles in some blocks and of one that compiles in none
ContextSession ==
  [id |-> "context", names |-> {str_v}, exprs |-> {str_x, str_bad},
   kinds |-> {"USE_CURRENT_FRAME", "USE_SELECTED_FRAME", "USE_SPECIFIED_FRAME",
              "USE_BLOCK_IN_FRAME", "NO_FRAME_NEEDED"},
   texts |-> {}, moves |-> {"frame"}, roots |-> 1, deep |-> FALSE]

\* the frame and block arguments a front end passes with each kind
CreateContexts(k) ==
  CASE k = "USE_SPECIFIED_FRAME" ->
         {[frame |-> f, block |-> NoBlock] : f \in {0, F1.id}}
    [] k \in {"USE_BLOCK_IN_FRAME", "NO_FRAME_NEEDED"} ->
         {[frame |-> 0, block |-> b] : b \in {NoBlock, BlockB}}
    [] OTHER -> {[frame |-> 0, block |-> NoBlock]}

TreeSession ==
  [id |-> "tree", names |-> {str_v}, exprs |-> {str_s},
   kinds |-> {"USE_CURRENT_FRAME"}, texts |-> {}, moves |-> {"val", "dyn"},
   roots |-> 1, deep |-> FALSE]

PointerSession ==
  [id |-> "pointer", names |-> {str_v}, exprs |-> {str_q},
   kinds |-> {"USE_CURRENT_FRAME"}, texts |-> {}, moves |-> {"dyn", "mem"},
   roots |-> 1, deep |-> FALSE]

\* the front end has names generated, and picks names of that form itself
GenSession ==
  [id |-> "gen", names |-> {str_var \o Decimal(n) : n \in 1..MaxGen},
   exprs |-> {str_g}, kinds |-> {"USE_CURRENT_FRAME"}, texts |-> {},
   moves |-> {"gen"}, roots |-> MaxRoots, deep |-> FALSE]

\* the front end looks at k, a struct of a C source file with a member
\* called private, while the current language is C++
CplusSession ==
  [id |-> "cxx", names |-> {str_v}, exprs |-> {str_k},
   kinds |-> {"USE_CURRENT_FRAME"}, texts |-> {str_lit(n) : n \in 0..MaxVal},
   moves |-> {"val", "mem"}, roots |-> 1, deep |-> FALSE]

\* the user works in hexadecimal, and assigns to an int
RadixSession ==
  [id |-> "radix", names |-> {str_v}, exprs |-> {str_g},
   kinds |-> {"USE_CURRENT_FRAME"}, texts |-> {str_lit(1), str_bad},
   moves |-> {"radix", "mem"}, roots |-> 1, deep |-> FALSE]

\* the front end looks at j, an object of the same layout in a Java source
JavaSession ==
  [id |-> "java", names |-> {str_v}, exprs |-> {str_j},
   kinds |-> {"USE_CURRENT_FRAME"}, texts |-> {}, moves |-> {"val"},
   roots |-> 1, deep |-> FALSE]

\* the front end asks for path expressions, of a struct whose members
\* change
PathSession ==
  [id |-> "path", names |-> {str_v}, exprs |-> {str_s},
   kinds |-> {"USE_CURRENT_FRAME"}, texts |-> {}, moves |-> {"path", "val"},
   roots |-> 1, deep |-> FALSE]

\* and of a pointer to an object whose class changes
PathPointerSession ==
  [id |-> "pathptr", names |-> {str_v}, exprs |-> {str_q},
   kinds |-> {"USE_CURRENT_FRAME"}, texts |-> {}, moves |-> {"path", "dyn"},
   roots |-> 1, deep |-> FALSE]

\* the front end assigns to a pointer to an object whose class changes
PointerAssignSession ==
  [id |-> "assign", names |-> {str_v}, exprs |-> {str_q},
   kinds |-> {"USE_CURRENT_FRAME"}, texts |-> {str_lit(1)},
   moves |-> {"ptr", "dyn"}, roots |-> 1, deep |-> FALSE]

\* the modes of set scheduler-locking
SchedulerModes == {"off", "step", "on"}

\* the user changes the scheduler-locking settings between the calls
LockSession ==
  [id |-> "lock", names |-> {str_v}, exprs |-> {str_q, str_bad},
   kinds |-> {"USE_CURRENT_FRAME", "USE_SELECTED_FRAME"},
   texts |-> {str_lit(0), str_bad}, moves |-> {"lock", "eval"},
   roots |-> 1, deep |-> FALSE]

Sessions ==
  {RegistrySession, CollideSession, PruneSession, ScalarSession, ScopeSession,
   ContextSession, TreeSession, PointerSession, LockSession, GenSession,
   CplusSession, JavaSession, RadixSession, PathSession, PathPointerSession,
   PointerAssignSession}

NoLast ==
  [op |-> "none", objname |-> NoName, expr |-> NoName, flag |-> FALSE,
   kind |-> "", ret |-> 0, status |-> "", set |-> FALSE, changelist |-> <<>>,
   dellist |-> <<>>, visited |-> <<>>, handle |-> NoObj, var |-> NoObj,
   pre |-> new_variable, pre_names |-> {}, pre_desc |-> {}, inside |-> FALSE,
   accesses |-> {}, cleanup_chain |-> <<>>, value_frees |-> <<>>]

\* the record of a call on the object called objname: handle is the
\* object, pre its fields, pre_names the registered names and pre_desc the
\* names of the object's materialized descendants, all before the call;
\* inside tells whether execution was inside the root's block at the last
\* creation or update of a root
Called(op, objname) ==
  LET v == varobj_get_handle(TheStore, objname)
  IN [NoLast EXCEPT
        !.op = op, !.objname = objname, !.handle = v,
        !.pre = IF v = NoObj THEN new_variable ELSE objs[v],
        !.pre_names = RegisteredNames(TheStore),
        !.pre_desc = IF v = NoObj THEN {} ELSE DescNames(objs, v),
        !.inside = IF op = "update" /\ v # NoObj /\ objs[v].root = v
                   THEN varobj_pc_in_valid_block_p(tgt, objs[v])
                   ELSE last.inside]

SetStore(st) ==
  /\ objs' = st.objs
  /\ varobj_table' = st.table
  /\ rootlist' = st.rootlist
  /\ rootcount' = st.rootcount
  /\ scheduler_mode' = st.scheduler_mode
  /\ input_radix' = st.input_radix

InitTarget ==
  [val |-> 0, ptr |-> 0, dyn |-> "Base", f1live |-> FALSE, pc |-> 1, evalOK |-> TRUE,
   memOK |-> TRUE]

Init ==
  /\ objs = <<>>
  /\ varobj_table = <<>>
  /\ rootlist = <<>>
  /\ rootcount = 0
  /\ tgt = InitTarget
  /\ selected = F0.id
  /\ scheduler_mode = "off"
  /\ input_radix = 10
  /\ varobj_runs_all_threads = FALSE
  /\ id = 0
  /\ session \in Sessions
  /\ last = NoLast

\* the store and the record of the call, once varobj_create has returned c
Created(rec, c) ==
  /\ SetStore(c.st)
  /\ last' = [rec EXCEPT !.status = c.status, !.var = c.var,
                         !.accesses = c.st.accesses,
                         !.cleanup_chain = c.st.cleanup_chain,
                         !.inside = IF c.var # NoObj
                                    THEN varobj_pc_in_valid_block_p(tgt, c.st.objs[c.var])
                                    ELSE @]

\* -var-create objname * expression, or @ for the selected frame
Create(objname, expression, frame, block, type) ==
  /\ Len(rootlist) < session.roots \/ objname \in RegisteredNames(TheStore)
  /\ Created([Called("create", objname) EXCEPT
                !.expr = expression, !.flag = (type = "USE_SELECTED_FRAME"),
                !.kind = type],
             varobj_create(tgt, TheStore, selected, objname, expression, frame, block,
                           type))
  /\ UNCHANGED <<tgt, selected, session, id, varobj_runs_all_threads>>

Deleted(rec, d) ==
  /\ SetStore(d.st)
  /\ last' = [rec EXCEPT !.ret = d.delcount, !.dellist = d.dellist]

\* -var-delete [-c] objname
Delete(objname, only_children) ==
  /\ objname \in RegisteredNames(TheStore)
  /\ session.deep \/ is_root_p(objs, varobj_get_handle(TheStore, objname))
  /\ Deleted([Called("delete", objname) EXCEPT !.flag = only_children],
             varobj_delete(TheStore, varobj_get_handle(TheStore, objname), only_children))
  /\ UNCHANGED <<tgt, selected, session, id, varobj_runs_all_threads>>

\* the cached child count is one the object's type has fields for; beyond
\* it c_make_name_of_child reads past the type's field table
ChildrenInBounds(os, var) ==
  os[var].num_children <= number_of_children(os, var)

Listed(rec, l) ==
  /\ SetStore(l.st)
  /\ last' = [rec EXCEPT !.ret = l.ret, !.status = IF l.ok THEN "ok" ELSE "dup",
                         !.accesses = l.st.accesses,
                         !.cleanup_chain = l.st.cleanup_chain,
                         !.visited = l.childlist]

\* -var-list-children objname
ListChildren(objname) ==
  /\ objname \in RegisteredNames(TheStore)
  /\ RootOf(objs, varobj_get_handle(TheStore, objname)).lang # ""
  /\ ChildrenInBounds(objs, varobj_get_handle(TheStore, objname))
  /\ ~NullTypeRead(objs, varobj_get_handle(TheStore, objname))
  /\ Listed([Called("list_children", objname) EXCEPT
               !.var = varobj_get_handle(TheStore, objname)],
            varobj_list_children(tgt, TheStore, varobj_get_handle(TheStore, objname)))
  /\ UNCHANGED <<tgt, selected, session, id, varobj_runs_all_threads>>

Assigned(rec, a) ==
  /\ SetStore(a.st)
  /\ tgt' = a.t
  /\ last' = [rec EXCEPT !.ret = a.ret, !.accesses = a.st.accesses,
                         !.value_frees = a.st.value_frees,
                         !.cleanup_chain = a.st.cleanup_chain]

\* -var-assign objname text
SetValue(objname, text) ==
  /\ objname \in RegisteredNames(TheStore)
  /\ \/ "ptr" \in session.moves
     \/ TYPE_CODE(get_type(objs[varobj_get_handle(TheStore, objname)])) # "PTR"
  /\ Assigned([Called("set_value", objname) EXCEPT
                 !.expr = text, !.var = varobj_get_handle(TheStore, objname)],
              varobj_set_value(tgt, TheStore, varobj_get_handle(TheStore, objname), text))
  /\ UNCHANGED <<selected, session, id, varobj_runs_all_threads>>

Updated(rec, u) ==
  /\ SetStore(u.st)
  /\ selected' = u.sel
  /\ last' = [rec EXCEPT !.ret = u.ret, !.set = u.set, !.changelist = u.changelist,
                         !.accesses = u.st.accesses,
                         !.value_frees = u.st.value_frees,
                         !.cleanup_chain = u.st.cleanup_chain,
                         !.visited = u.visited, !.var = u.var]

\* -var-update objname
Update(objname, junk) ==
  /\ objname \in RegisteredNames(TheStore)
  /\ Updated(Called("update", objname),
             varobj_update(tgt, TheStore, selected,
                           varobj_get_handle(TheStore, objname), junk))
  /\ UNCHANGED <<tgt, session, id, varobj_runs_all_threads>>

Counted(rec, n) ==
  /\ SetStore(n.st)
  /\ last' = [rec EXCEPT !.ret = n.ret]

\* -var-info-num-children objname
NumChildren(objname) ==
  /\ objname \in RegisteredNames(TheStore)
  /\ ~NullTypeRead(objs, varobj_get_handle(TheStore, objname))
  /\ Counted(Called("num_children", objname),
             varobj_get_num_children(TheStore, varobj_get_handle(TheStore, objname)))
  /\ UNCHANGED <<tgt, selected, session, id, varobj_runs_all_threads>>

\* -var-info-path-expression objname
PathExpr(objname) ==
  /\ "path" \in session.moves
  /\ objname \in RegisteredNames(TheStore)
  /\ SetStore(varobj_get_path_expr(TheStore, varobj_get_handle(TheStore, objname)).st)
  /\ last' = [Called("path_expr", objname) EXCEPT
                !.var = varobj_get_handle(TheStore, objname),
                !.expr = varobj_get_path_expr(TheStore,
                                              varobj_get_handle(TheStore, objname)).ret]
  /\ UNCHANGED <<tgt, selected, session, id, varobj_runs_all_threads>>

\* -var-list
List ==
  /\ last' = [NoLast EXCEPT !.op = "list", !.ret = varobj_list(TheStore).ret,
                            !.visited = varobj_list(TheStore).varlist,
                            !.pre_names = RegisteredNames(TheStore),
                            !.inside = last.inside]
  /\ UNCHANGED <<input_radix, objs, varobj_table, rootlist, rootcount, tgt, selected, session, id, scheduler_mode,
               varobj_runs_all_threads>>

Ran == [NoLast EXCEPT !.op = "run", !.inside = last.inside]

\* the debuggee runs and stops with another number in its int cell
StoreVal(n) ==
  /\ "val" \in session.moves
  /\ n # tgt.val
  /\ tgt' = [tgt EXCEPT !.val = n]
  /\ last' = Ran
  /\ UNCHANGED <<input_radix, objs, varobj_table, rootlist, rootcount, selected, session, id, scheduler_mode,
               varobj_runs_all_threads>>

\* ... with an object of another class behind the pointer
StoreDyn(d) ==
  /\ "dyn" \in session.moves
  /\ d # tgt.dyn
  /\ tgt' = [tgt EXCEPT !.dyn = d]
  /\ last' = Ran
  /\ UNCHANGED <<input_radix, objs, varobj_table, rootlist, rootcount, selected, session, id, scheduler_mode,
               varobj_runs_all_threads>>

\* evaluation starts or stops failing
FlipEval ==
  /\ "eval" \in session.moves
  /\ tgt' = [tgt EXCEPT !.evalOK = ~@]
  /\ last' = Ran
  /\ UNCHANGED <<input_radix, objs, varobj_table, rootlist, rootcount, selected, session, id, scheduler_mode,
               varobj_runs_all_threads>>

\* the debuggee's memory becomes unreadable, or readable again
FlipMem ==
  /\ "mem" \in session.moves
  /\ tgt' = [tgt EXCEPT !.memOK = ~@]
  /\ last' = Ran
  /\ UNCHANGED <<input_radix, objs, varobj_table, rootlist, rootcount, selected, session, id, scheduler_mode,
               varobj_runs_all_threads>>

\* main calls f: the stop selects the new frame
CallF ==
  /\ "frame" \in session.moves
  /\ ~tgt.f1live
  /\ tgt' = [tgt EXCEPT !.f1live = TRUE, !.pc = 1]
  /\ selected' = F1.id
  /\ last' = Ran
  /\ UNCHANGED <<input_radix, objs, varobj_table, rootlist, rootcount, session, id, scheduler_mode,
               varobj_runs_all_threads>>

\* f runs on to another pc
StepF(pc) ==
  /\ "frame" \in session.moves
  /\ tgt.f1live
  /\ pc # tgt.pc
  /\ tgt' = [tgt EXCEPT !.pc = pc]
  /\ selected' = F1.id
  /\ last' = Ran
  /\ UNCHANGED <<input_radix, objs, varobj_table, rootlist, rootcount, session, id, scheduler_mode,
               varobj_runs_all_threads>>

\* f returns to main
ReturnF ==
  /\ "frame" \in session.moves
  /\ tgt.f1live
  /\ tgt' = [tgt EXCEPT !.f1live = FALSE, !.pc = 1]
  /\ selected' = F0.id
  /\ last' = Ran
  /\ UNCHANGED <<input_radix, objs, varobj_table, rootlist, rootcount, session, id, scheduler_mode,
               varobj_runs_all_threads>>

\* the user selects another frame (up, down)
SelectFrame(f) ==
  /\ "frame" \in session.moves
  /\ f \in LiveFrames(tgt)
  /\ f # selected
  /\ selected' = f
  /\ last' = Ran
  /\ UNCHANGED <<input_radix, objs, varobj_table, rootlist, rootcount, tgt, session, id, scheduler_mode,
               varobj_runs_all_threads>>

\* set scheduler-locking off|step|on
SetSchedulerLocking(mode) ==
  /\ "lock" \in session.moves
  /\ mode # scheduler_mode
  /\ scheduler_mode' = mode
  /\ last' = Ran
  /\ UNCHANGED <<input_radix, objs, varobj_table, rootlist, rootcount, tgt, selected, session, id,
                 varobj_runs_all_threads>>

\* set input-radix 10|16
SetInputRadix(radix) ==
  /\ "radix" \in session.moves
  /\ radix # input_radix
  /\ input_radix' = radix
  /\ last' = Ran
  /\ UNCHANGED <<objs, varobj_table, rootlist, rootcount, tgt, selected, session, id,
                 scheduler_mode, varobj_runs_all_threads>>

\* set varobj-runs-all-threads on|off
SetRunsAllThreads ==
  /\ "lock" \in session.moves
  /\ varobj_runs_all_threads' = ~varobj_runs_all_threads
  /\ last' = Ran
  /\ UNCHANGED <<input_radix, objs, varobj_table, rootlist, rootcount, tgt, selected, session, id,
                 scheduler_mode>>

\* the front end asks for a name (-var-create - ...)
GenName ==
  /\ "gen" \in session.moves
  /\ id < MaxGen
  /\ id' = varobj_gen_name(id).id
  /\ last' = [NoLast EXCEPT !.op = "gen_name",
                            !.objname = varobj_gen_name(id).obj_name,
                            !.pre_names = RegisteredNames(TheStore),
                            !.inside = last.inside]
  /\ UNCHANGED <<input_radix, objs, varobj_table, rootlist, rootcount, tgt, selected, session,
                 scheduler_mode, varobj_runs_all_threads>>

Next ==
  \/ \E n \in session.names, e \in session.exprs, k \in session.kinds :
       \E c \in CreateContexts(k) : Create(n, e, c.frame, c.block, k)
  \/ \E n \in RegisteredNames(TheStore), oc \in BOOLEAN : Delete(n, oc)
  \/ \E n \in RegisteredNames(TheStore) : ListChildren(n)
  \/ \E n \in RegisteredNames(TheStore), x \in session.texts : SetValue(n, x)
  \/ \E n \in RegisteredNames(TheStore), junk \in BOOLEAN : Update(n, junk)
  \/ \E n \in RegisteredNames(TheStore) : NumChildren(n)
  \/ \E n \in RegisteredNames(TheStore) : PathExpr(n)
  \/ List
  \/ \E n \in 0..MaxVal : StoreVal(n)
  \/ \E d \in {"Base", "Derived"} : StoreDyn(d)
  \/ FlipEval
  \/ FlipMem
  \/ CallF
  \/ \E pc \in PcsOfF : StepF(pc)
  \/ ReturnF
  \/ \E f \in {F0.id, F1.id} : SelectFrame(f)
  \/ \E m \in SchedulerModes : SetSchedulerLocking(m)
  \/ SetRunsAllThreads
  \/ \E radix \in {10, 16} : SetInputRadix(radix)
  \/ GenName

Spec == Init /\ [][Next]_vars

-----------------------------------------------------------------------------
(* The C++ strategy applied to every class type within the bounds *)

AccessLists ==
  UNION {[1..n -> {"public", "private", "protected"}] : n \in 0..MaxFields}

\* the virtual table pointer, when there is one, is a field of the type
vf_in_type(type) == type.vptr_fieldno < CLASS_NFIELDS(type)

ClassTypes ==
  {[n_baseclasses |-> nb, access |-> a, vptr_fieldno |-> vf, vptr_basetype_self |-> vs] :
     nb \in 0..MaxBases, a \in AccessLists, vf \in -1..(MaxBases + MaxFields - 1),
     vs \in BOOLEAN}

CplusInit ==
  /\ objs = <<>>
  /\ varobj_table = <<>>
  /\ rootlist = <<>>
  /\ rootcount = 0
  /\ tgt = InitTarget
  /\ selected = F0.id
  /\ scheduler_mode = "off"
  /\ input_radix = 10
  /\ varobj_runs_all_threads = FALSE
  /\ id = 0
  /\ \E type \in ClassTypes :
       /\ vf_in_type(type)
       /\ session = [id |-> "cplus", type |-> type]
  /\ last = NoLast

\* varobj_get_num_children of an object of the class type
CplusNumberOfChildren ==
  /\ last' = [NoLast EXCEPT !.op = "cplus_number_of_children",
                            !.ret = cplus_number_of_children(session.type)]
  /\ UNCHANGED <<input_radix, objs, varobj_table, rootlist, rootcount, tgt, selected, session,
                 scheduler_mode, varobj_runs_all_threads, id>>

\* create_child names the child at index, as varobj_list_children asks for
\* each index below the count
CplusMakeNameOfChild(index) ==
  /\ index < cplus_number_of_children(session.type)
  /\ last' = [NoLast EXCEPT !.op = "cplus_make_name_of_child", !.ret = index,
                            !.objname = cplus_make_name_of_child(session.type, index)]
  /\ UNCHANGED <<input_radix, objs, varobj_table, rootlist, rootcount, tgt, selected, session,
                 scheduler_mode, varobj_runs_all_threads, id>>

CplusNext ==
  \/ CplusNumberOfChildren
  \/ \E index \in 0..(MaxBases + 2) : CplusMakeNameOfChild(index)

CplusSpec == CplusInit /\ [][CplusNext]_vars

-----------------------------------------------------------------------------
(* Properties *)

HasEntry(changelist, v) == \E i \in 1..Len(changelist) : changelist[i].var = v

IsScalar(o) == TYPE_CODE(get_type(o)) \in {"INT", "PTR"}

\* both values have been read and hold the same contents
SameContents(v1, v2) ==
  ~v1.null /\ ~v2.null /\ ~v1.lazy /\ ~v2.lazy /\ v1.data = v2.data

\* the call was made on a root
OnRoot(l) == l.handle # NoObj /\ l.pre.root = l.handle

\* C1: creating a root under an object name that is already registered, by
\* a root or by a materialized child, fails, and leaves the objects, the
\* hash table, the root list and the root count as they were.
C1_DuplicateNameFails ==
  [][(last'.op = "create" /\ last'.objname \in RegisteredNames(TheStore))
     => /\ last'.status # "ok"
        /\ last'.var = NoObj
        /\ objs' = objs
        /\ varobj_table' = varobj_table
        /\ rootlist' = rootlist
        /\ rootcount' = rootcount]_vars

\* a creation was refused because a materialized child holds the name
C1_Witness ==
  /\ last.op = "create"
  /\ last.status = "dup"
  /\ last.handle # NoObj
  /\ ~is_root_p(objs, last.handle)

\* the update of an in-scope scalar root whose updated flag is clear, that
\* obtains a value of the same type with the same contents as the stored one
C2_Unchanged ==
  /\ last.op = "update"
  /\ OnRoot(last)
  /\ last.set
  /\ last.var = last.handle
  /\ last.pre.in_scope
  /\ ~last.pre.updated
  /\ IsScalar(last.pre)
  /\ objs[last.var].type = last.pre.type
  /\ objs[last.var].dynamic_type = last.pre.dynamic_type
  /\ SameContents(last.pre.value, objs[last.var].value)

\* C2: varobj_update on an in-scope scalar root whose updated flag is clear,
\* whose type has not changed and whose re-evaluated value equals the stored
\* one adds no change entry for the root; with no materialized children it
\* returns 0 and an empty change list.
C2_UnchangedRootNotReported ==
  C2_Unchanged
  => /\ ~HasEntry(last.changelist, last.var)
     /\ last.pre.children = <<>> => (last.ret = 0 /\ last.changelist = <<>>)

C2_Witness ==
  /\ C2_Unchanged
  /\ last.pre.children = <<>>
  /\ last.ret = 0

\* the number a literal text denotes
LitNumber(text) == text[1] - 48

\* varobj_set_value has stored a number that differs from the contents of
\* the stored value of an in-scope scalar root
C3_AssignedAnother ==
  /\ last'.op = "set_value"
  /\ last'.ret = 1
  /\ OnRoot(last')
  /\ last'.pre.in_scope
  /\ IsScalar(last'.pre)
  /\ ~last'.pre.error
  /\ SameContents(last'.pre.value, last'.pre.value)
  /\ last'.expr \in {str_lit(n) : n \in 0..MaxVal}
  /\ LitNumber(last'.expr) # last'.pre.value.data

OnBlockRoot(l) ==
  /\ l.op = "update"
  /\ OnRoot(l)
  /\ ~l.pre.use_selected_frame
  /\ l.pre.valid_block # NoBlock

\* C4: for a root bound to a lexical block, the first varobj_update after
\* execution leaves the block returns -3 and marks the root out of scope;
\* an update that finds execution still outside the block returns zero
\* changes; the first update after execution is back in the block contains
\* a change entry for the root.  (inside remembers whether execution was in
\* the block at the previous update, or at the creation.)
C4_ScopeTransitions ==
  [][OnBlockRoot(last')
     => /\ (last.inside /\ ~last'.inside)
           => (last'.ret = -3 /\ ~objs'[last'.var].in_scope)
        /\ (~last.inside /\ ~last'.inside)
           => (last'.ret = 0 /\ last'.changelist = <<>>)
        /\ (~last.inside /\ last'.inside)
           => HasEntry(last'.changelist, last'.var)]_vars

\* the update found the type of the root changed: the root was replaced by
\* one of another type, or its dynamic type is another one
C5_TypeChanged ==
  /\ last.op = "update"
  /\ OnRoot(last)
  /\ \/ last.var # last.handle
     \/ objs[last.var].type # last.pre.type
     \/ objs[last.var].dynamic_type # last.pre.dynamic_type

\* C5: when varobj_update finds that the type of the root, static or
\* dynamic, changed, it returns -2, the change list holds one entry, the
\* root tagged with the type change, and no child materialized under the
\* old root is live or registered.
C5_TypeChangeReported ==
  C5_TypeChanged
  => /\ last.ret = -2
     /\ Len(last.changelist) = 1
     /\ last.changelist[1].var = last.var
     /\ last.changelist[1].type_changed # "UNCHANGED"
     /\ last.pre_desc \cap RegisteredNames(TheStore) = {}
     /\ \A v \in DOMAIN objs : objs[v].obj_name \notin last.pre_desc

\* C10: varobj_update returns -3 only when scope resolution failed for a
\* previously in-scope root: for a root bound to a frame, no live frame has
\* the stored frame id or the pc is outside the block.
C10_ScopeExitOnlyOnScopeFailure ==
  (/\ last.op = "update"
   /\ OnRoot(last)
   /\ ~last.pre.use_selected_frame
   /\ last.ret = -3)
  => (last.pre.in_scope /\ ~varobj_pc_in_valid_block_p(tgt, last.pre))

\* where a name stands in a list
Pos(list, name) == CHOOSE i \in 1..Len(list) : list[i] = name

Names(list) == {list[i] : i \in 1..Len(list)}

\* the store after the step
TheStoreAfter ==
  Store(objs', varobj_table', rootlist', rootcount')
  @@ [scheduler_mode |-> scheduler_mode',
      input_radix |-> input_radix',
      varobj_runs_all_threads |-> varobj_runs_all_threads',
      cleanup_chain |-> <<>>, accesses |-> {}, value_frees |-> <<>>]

\* the nodes a varobj_delete of the node at handle h is to delete
Doomed(h, only_children) ==
  Descendants(objs, h) \cup (IF only_children THEN {} ELSE {h})

\* C6 (amended): the name list varobj_delete returns is in parent-before-
\* children order: the name of every deleted node stands earlier in the
\* list than the name of each of its descendants.
C6_ParentsBeforeChildren ==
  [][last'.op = "delete"
     => \A v \in Doomed(last'.handle, last'.flag) :
          \A d \in Descendants(objs, v) :
            /\ objs[v].obj_name \in Names(last'.dellist)
            /\ objs[d].obj_name \in Names(last'.dellist)
            /\ Pos(last'.dellist, objs[v].obj_name)
                 < Pos(last'.dellist, objs[d].obj_name)]_vars

\* a node was deleted together with two or more of its descendants
C6_Witness ==
  /\ last.op = "delete"
  /\ ~last.flag
  /\ Len(last.dellist) >= 3
  /\ last.dellist[1] = last.pre.obj_name

\* C6 as stated: the name of each descendant of a deleted node stands
\* earlier in the returned list than the name of the node.
C6_ChildrenBeforeParents ==
  [][last'.op = "delete"
     => \A v \in Doomed(last'.handle, last'.flag) :
          \A d \in Descendants(objs, v) :
            (objs[v].obj_name \in Names(last'.dellist)
             /\ objs[d].obj_name \in Names(last'.dellist))
            => Pos(last'.dellist, objs[d].obj_name)
                 < Pos(last'.dellist, objs[v].obj_name)]_vars

\* C7: after varobj_delete (node, only_children = 0) the returned list
\* holds the name of the node and of every materialized descendant once
\* and nothing else, the returned count is the length of the list and the
\* number of names that left the registry, and varobj_get_handle fails for
\* each of the names.
C7_DeleteReportsWhatItRemoved ==
  (last.op = "delete" /\ ~last.flag)
  => /\ Names(last.dellist) = {last.pre.obj_name} \cup last.pre_desc
     /\ Cardinality(Names(last.dellist)) = Len(last.dellist)
     /\ last.ret = Len(last.dellist)
     /\ RegisteredNames(TheStore) \subseteq last.pre_names
     /\ Cardinality(last.pre_names \ RegisteredNames(TheStore)) = last.ret
     /\ \A i \in 1..Len(last.dellist) :
          varobj_get_handle(TheStore, last.dellist[i]) = NoObj

\* a node with materialized descendants was deleted while another name
\* stayed registered
C7_Witness ==
  /\ last.op = "delete"
  /\ ~last.flag
  /\ last.pre_desc # {}
  /\ last.ret >= 2
  /\ RegisteredNames(TheStore) # {}

\* C8: varobj_update materializes no child: an object live before and
\* after the update has no child it did not have before, the only object
\* the update adds is a root that takes the place of the old one and has no
\* children, and the update visits only descendants materialized before it.
C8_UpdateMaterializesNothing ==
  [][last'.op = "update"
     => /\ \A v \in DOMAIN objs \cap DOMAIN objs' :
             Names(objs'[v].children) \subseteq Names(objs[v].children)
        /\ \A v \in DOMAIN objs' \ DOMAIN objs :
             v = last'.var /\ objs'[v].children = <<>>
        /\ Names(last'.visited) \subseteq Descendants(objs, last'.handle)]_vars

\* an update visited children and left a visited child that has members
\* without materialized children
C8_Witness ==
  /\ last.op = "update"
  /\ last.set
  /\ \E i \in 1..Len(last.visited) :
       /\ last.visited[i] \in DOMAIN objs
       /\ objs[last.visited[i]].children = <<>>
       /\ number_of_children(objs, last.visited[i]) > 0

\* C9: during varobj_update a materialized child whose newly computed
\* dynamic type differs from the stored one gets a change entry tagged
\* DYNAMIC_TYPE_CHANGED, all its materialized descendants are deleted and
\* unregistered, and none of them is visited or reported in that pass.
C9_ChildTypeChange ==
  [][last'.op = "update"
     => \A i \in 1..Len(last'.visited) :
          LET v == last'.visited[i]
          IN (v \in DOMAIN objs' /\ objs'[v].dynamic_type # objs[v].dynamic_type)
             => /\ \E j \in 1..Len(last'.changelist) :
                     /\ last'.changelist[j].var = v
                     /\ last'.changelist[j].type_changed = "DYNAMIC_TYPE_CHANGED"
                /\ \A d \in Descendants(objs, v) :
                     /\ d \notin DOMAIN objs'
                     /\ objs[d].obj_name \notin RegisteredNames(TheStoreAfter)
                     /\ d \notin Names(last'.visited)
                     /\ ~HasEntry(last'.changelist, d)]_vars

\* an update found a child of another dynamic type that had materialized
\* children
C9_Witness ==
  /\ last.op = "update"
  /\ \E j \in 1..Len(last.changelist) :
       /\ last.changelist[j].var # last.var
       /\ last.changelist[j].type_changed = "DYNAMIC_TYPE_CHANGED"
       /\ last.changelist[j].var \in Names(last.visited)
  /\ Cardinality(last.pre_names \ RegisteredNames(TheStore)) > 0

\* C11: when varobj_update or varobj_create returns, on every path, the
\* selected frame is the frame that was selected when the operation was
\* called (the frames of the debuggee do not change during the call).
C11_SelectedFrameRestored ==
  [][(last'.op \in {"update", "create"} /\ frame_find_by_id(tgt, selected) # null_frame_id)
     => selected' = selected]_vars

\* names a front end may ask for
ProbeNames == session.names \cup {str_v, str_v_a, str_cb, str_ac, str_bad}

\* the objects in the hash table
TableEntries ==
  UNION {{varobj_table[i][j] : j \in 1..Len(varobj_table[i])} : i \in DOMAIN varobj_table}

\* the number of entries of the hash table
RECURSIVE TableSize(_)
TableSize(bs) ==
  IF bs = {} THEN 0
  ELSE LET b == CHOOSE i \in bs : TRUE
       IN Len(varobj_table[b]) + TableSize(bs \ {b})

\* C14: between operations every entry of the hash table is a live object,
\* in the bucket of its object name, and is there once; every live object,
\* root or materialized child, is registered; varobj_get_handle (name)
\* returns the object that has this name and fails for every name that is
\* not registered, whatever names share a bucket.
C14_RegistryConsistent ==
  /\ TableEntries = DOMAIN objs
  /\ TableSize(DOMAIN varobj_table) = Cardinality(DOMAIN objs)
  /\ \A i \in DOMAIN varobj_table :
       \A j \in 1..Len(varobj_table[i]) : HashIndex(objs[varobj_table[i][j]].obj_name) = i
  /\ \A v, w \in DOMAIN objs : objs[v].obj_name = objs[w].obj_name => v = w
  /\ \A v \in DOMAIN objs :
       objs[v].obj_name # NoName /\ varobj_get_handle(TheStore, objs[v].obj_name) = v
  /\ \A n \in ProbeNames \ RegisteredNames(TheStore) :
       varobj_get_handle(TheStore, n) = NoObj

\* two names that share a bucket are registered, one name of the session is
\* not
C14_Witness ==
  /\ \E v, w \in DOMAIN objs :
       v # w /\ HashIndex(objs[v].obj_name) = HashIndex(objs[w].obj_name)
  /\ last.op = "delete"
  /\ ProbeNames \ RegisteredNames(TheStore) # {}

\* the registered roots
RegisteredRoots == {v \in DOMAIN objs : is_root_p(objs, v) /\ v \in TableEntries}

\* C15: between operations the root list holds the registered roots, each
\* once, rootcount is its length, and varobj_list returns every registered
\* root once and nothing else.
C15_RootListConsistent ==
  /\ Names(rootlist) = RegisteredRoots
  /\ Cardinality(Names(rootlist)) = Len(rootlist)
  /\ rootcount = Len(rootlist)
  /\ Names(varobj_list(TheStore).varlist) = RegisteredRoots
  /\ Len(varobj_list(TheStore).varlist) = Cardinality(RegisteredRoots)
  /\ varobj_list(TheStore).ret = Cardinality(RegisteredRoots)
  /\ last.op = "list" => (last.visited = rootlist /\ last.ret = Len(rootlist))

\* varobj_list returned the one root while materialized children were
\* registered too
C15_Witness ==
  /\ last.op = "list"
  /\ last.ret = 1
  /\ Cardinality(DOMAIN objs) > 1
  /\ Cardinality(DOMAIN objs \ RegisteredRoots) >= 1

\* the text given to the varobj_create of this step does not compile: it
\* is no expression at all, or it names x where no x is visible
C16_DoesNotCompile ==
  /\ last'.op = "create"
  /\ \/ last'.expr = str_bad
     \/ /\ last'.expr = str_x
        /\ last'.kind \in {"USE_CURRENT_FRAME", "USE_SELECTED_FRAME"}
        /\ get_frame_block(tgt, selected) = BlockF

\* C16 (amended): if the expression text does not compile, varobj_create
\* returns no object and registers nothing when the root is to use the
\* current frame, a given frame, a block in the frame or no frame; when the
\* root is to use the selected frame it returns a root without expression
\* and type, out of scope, and registers it under the name if the name is
\* free.
C16_ParseFailure ==
  [][C16_DoesNotCompile
     => IF last'.kind = "USE_SELECTED_FRAME"
        THEN last'.objname \notin RegisteredNames(TheStore)
             => /\ last'.status = "ok"
                /\ varobj_get_handle(TheStoreAfter, last'.objname) = last'.var
                /\ last'.var \notin DOMAIN objs
                /\ objs'[last'.var].exp = NoExp
                /\ objs'[last'.var].type = NoType
                /\ ~objs'[last'.var].in_scope
        ELSE /\ last'.status = "null"
             /\ last'.var = NoObj
             /\ TheStoreAfter = TheStore]_vars

\* a root to use the selected frame was made of a text that does not
\* compile
C16_Witness ==
  /\ last.op = "create"
  /\ last.expr = str_bad
  /\ last.kind = "USE_SELECTED_FRAME"
  /\ last.status = "ok"
  /\ objs[last.var].exp = NoExp

\* C16 as stated: if the expression text does not compile, varobj_create
\* returns no object and registers nothing, in every kind of context.
C16_ParseFailureCreatesNothing ==
  [][C16_DoesNotCompile
     => /\ last'.status # "ok"
        /\ last'.var = NoObj
        /\ TheStoreAfter = TheStore]_vars

\* C17: in every state the cached num_children of an object is -1 or what
\* the language strategy computes for the object's current type, the
\* dynamic type when set.
C17_ChildCountCurrent ==
  \A v \in DOMAIN objs :
    \/ objs[v].num_children = -1
    \/ objs[v].num_children = number_of_children(objs, v)

\* C18: a registered root with no bound lexical block is in scope after
\* every varobj_update, whatever the frames, the pc and the outcome of
\* evaluating its expression.  (Stated for the roots that are not parsed
\* again in the selected frame at each update.)
C18_GlobalRootInScope ==
  (/\ last.op = "update"
   /\ OnRoot(last)
   /\ ~last.pre.use_selected_frame
   /\ last.var \in DOMAIN objs
   /\ objs[last.var].valid_block = NoBlock)
  => objs[last.var].in_scope

\* the roots bound to a block
BlockRoots == {v \in DOMAIN objs : is_root_p(objs, v) /\ objs[v].valid_block # NoBlock}

\* the pc of the live frame with this id
PcOf(fid) == IF fid = F1.id THEN tgt.pc ELSE PcMain.pc

\* C19: for a root bound to a block, varobj_pc_in_valid_block_p is true
\* exactly when a live frame has the stored frame id and the pc of that
\* frame satisfies startaddr <= pc < endaddr.
C19_ScopeCheck ==
  \A v \in BlockRoots :
    varobj_pc_in_valid_block_p(tgt, objs[v])
    <=> /\ objs[v].frame \in LiveFrames(tgt)
        /\ objs[v].valid_block.startaddr <= PcOf(objs[v].frame)
        /\ PcOf(objs[v].frame) < objs[v].valid_block.endaddr

\* the frame of a root is live with its pc at the end address of the root's
\* block, and an update has found the root out of scope
C19_Witness ==
  /\ last.op = "update"
  /\ last.handle \in BlockRoots
  /\ objs[last.handle].frame \in LiveFrames(tgt)
  /\ PcOf(objs[last.handle].frame) = objs[last.handle].valid_block.endaddr
  /\ ~last.inside
  /\ last.ret = -3

\* the object is of struct, union or array type
IsAggregate(o) == TYPE_CODE(get_type(o)) \in {"STRUCT", "UNION", "ARRAY"}

\* the object v is live before and after the step with the same types
SameType(v) ==
  /\ v \in DOMAIN objs /\ v \in DOMAIN objs'
  /\ objs'[v].type = objs[v].type
  /\ objs'[v].dynamic_type = objs[v].dynamic_type

\* C20: for an object of struct, union or array type, root or materialized
\* child, whose type did not change, varobj_update adds a change entry only
\* if its updated flag was set or its root was out of scope before the
\* update; a difference between its old and new value alone adds none.
C20_AggregateNotReported ==
  [][last'.op = "update"
     => \A v \in DOMAIN objs :
          (/\ SameType(v)
           /\ IsAggregate(objs[v])
           /\ HasEntry(last'.changelist, v))
          => \/ objs[v].updated
             \/ ~RootOf(objs, v).in_scope]_vars

\* an update has read another value for an in-scope struct root whose
\* updated flag was clear, and has not reported the root
C20_Witness ==
  /\ last.op = "update"
  /\ OnRoot(last)
  /\ last.var = last.handle
  /\ last.ret >= 0
  /\ last.pre.in_scope
  /\ ~last.pre.updated
  /\ IsAggregate(last.pre)
  /\ objs[last.var].type = last.pre.type
  /\ objs[last.var].dynamic_type = last.pre.dynamic_type
  /\ ~last.pre.value.null /\ ~last.pre.value.lazy
  /\ ~objs[last.var].value.null /\ ~objs[last.var].value.lazy
  /\ last.pre.value.data # objs[last.var].value.data
  /\ ~HasEntry(last.changelist, last.var)

\* C12: when varobj_create, varobj_set_value or varobj_update returns, on
\* any path, the scheduler-locking mode is the one it was when the operation
\* was called, also when an update creates a temporary object.
C12_SchedulerModeRestored ==
  [][last'.op \in {"create", "set_value", "update"}
     => scheduler_mode' = scheduler_mode]_vars

\* an update of a selected-frame root has made its temporary object and
\* evaluated under the lock, and the mode is the user's "step" again
C12_Witness ==
  /\ last.op = "update"
  /\ last.pre.use_selected_frame
  /\ last.ret >= 0
  /\ [what |-> "parse", mode |-> "on"] \in last.accesses
  /\ [what |-> "evaluate", mode |-> "on"] \in last.accesses
  /\ scheduler_mode = "step"

\* the calls into the debuggee that value_of_child makes
ChildAccesses == {"child", "child_rtti", "child_fetch"}

Popped(l) == [i \in 1..Len(PopChanges(l.changelist)) |-> PopChanges(l.changelist)[i].var]

\* the position of v in the sequence sq of objects, or 0
Where(sq, v) ==
  IF \E i \in 1..Len(sq) : sq[i] = v
  THEN CHOOSE i \in 1..Len(sq) : sq[i] = v
  ELSE 0

\* C21: popping the change list of a varobj_update yields the entries in
\* the order the pass added them: the root first when it is reported, the
\* children in the order they were visited, and every reported object
\* before any of its reported descendants.
C21_ChangesInTraversalOrder ==
  (last.op = "update" /\ last.set)
  => LET popped == Popped(last)
     IN /\ \A i \in 1..Len(popped) :
             popped[i] = last.var => i = 1
        /\ \A i, j \in 1..Len(popped) :
             /\ (i < j /\ popped[i] # last.var)
                => Where(last.visited, popped[i]) < Where(last.visited, popped[j])
             /\ (popped[i] \in DOMAIN objs /\ popped[j] \in DOMAIN objs
                 /\ popped[j] \in Descendants(objs, popped[i]))
                => i < j

\* an update has reported its root and a materialized child of the root,
\* and the pops give the root first
C21_Witness ==
  /\ last.op = "update"
  /\ last.ret = 2
  /\ Len(Popped(last)) = 2
  /\ Popped(last)[1] = last.var
  /\ Popped(last)[2] \in DOMAIN objs
  /\ objs[Popped(last)[2]].parent = last.var

\* the root and the children that the last update went through and that
\* are still live
Walked(l) == {v \in Names(l.visited) \cup {l.var} : v \in DOMAIN objs}

\* C22: after a varobj_update that stored a change list, every visited
\* object that is not a fake child and for which no value was obtained, or
\* whose lazy contents could not be fetched, has its error flag set, and
\* every visited object that has a fetched value has its error flag clear.
C22_ErrorFlagsCurrent ==
  (last.op = "update" /\ last.set)
  => \A v \in Walked(last) :
       /\ (~CPLUS_FAKE_CHILD(objs, v) /\ (objs[v].value.null \/ objs[v].value.lazy))
          => objs[v].error
       /\ (~objs[v].value.null /\ ~objs[v].value.lazy) => ~objs[v].error

\* the names varobj_gen_name has returned before the step
Generated == {str_var \o Decimal(n) : n \in 1..id}

\* C23: each name that varobj_gen_name returns differs from every name it
\* returned earlier and from every object name that is registered, so a
\* varobj_create under the name does not fail on a duplicate name.
C23_GeneratedNameIsFresh ==
  [][last'.op = "gen_name"
     => /\ last'.objname \notin Generated
        /\ last'.objname \notin RegisteredNames(TheStore)]_vars

\* the update of a root that uses the selected frame has put another
\* object in the place of the root
C24_Replaced ==
  /\ last'.op = "update"
  /\ last'.pre.use_selected_frame
  /\ last'.var # last'.handle

\* C24: after an update that replaced a use-selected-frame root whose type
\* changed, the object name of the root is the name of the replacement (the
\* caller's handle points to it), the replacement is in the root list, the
\* old root and its children are neither live nor registered, and there are
\* as many roots as before.
C24_ReplacementRegistered ==
  [][C24_Replaced
     => /\ varobj_get_handle(TheStoreAfter, last'.objname) = last'.var
        /\ objs'[last'.var].obj_name = last'.objname
        /\ RootFind(rootlist', last'.var) # 0
        /\ last'.handle \notin DOMAIN objs'
        /\ \A d \in Descendants(objs, last'.handle) : d \notin DOMAIN objs'
        /\ last'.pre_desc \cap RegisteredNames(TheStoreAfter) = {}
        /\ \A i \in DOMAIN varobj_table' :
             \A k \in 1..Len(varobj_table'[i]) : varobj_table'[i][k] \in DOMAIN objs'
        /\ rootcount' = rootcount
        /\ Len(rootlist') = Len(rootlist)]_vars

\* an update has replaced a use-selected-frame root that had materialized
\* children, and returned -2
C24_Witness ==
  /\ last.op = "update"
  /\ last.pre.use_selected_frame
  /\ last.var # last.handle
  /\ last.pre_desc # {}
  /\ last.ret = -2
  /\ varobj_get_handle(TheStore, last.objname) = last.var

\* the fields of the class type at the access level, the virtual table
\* pointer of the class itself left out
Bucket(type, level) ==
  {i \in 1..Len(type.access) :
     /\ type.access[i] = level
     /\ ~(type.vptr_basetype_self /\ type.vptr_fieldno = type.n_baseclasses + i - 1)}

\* the access levels that have fields, in the order public, private,
\* protected
NonEmptyBuckets(type) ==
  SelectSeq(<<"public", "private", "protected">>, LAMBDA b : Bucket(type, b) # {})

BucketName(b) ==
  CASE b = "public" -> str_public
    [] b = "private" -> str_private
    [] b = "protected" -> str_protected

\* C25: under the C++ strategy the child count of a class type is the
\* number of its direct base classes plus the number of its access levels
\* that have fields; the indices below the number of base classes name the
\* base classes, the others the non-empty levels in the order public,
\* private, protected.
C25_CplusChildren ==
  LET type == session.type
  IN /\ last.op = "cplus_number_of_children"
        => last.ret = type.n_baseclasses + Len(NonEmptyBuckets(type))
     /\ last.op = "cplus_make_name_of_child"
        => IF last.ret < type.n_baseclasses
           THEN last.objname = CLASS_FIELD_NAME(type, last.ret)
           ELSE last.objname =
                  BucketName(NonEmptyBuckets(type)[last.ret - type.n_baseclasses + 1])

\* the last child of a class with base classes, a virtual table pointer
\* among its fields and no public field has got the name "protected"
C25_Witness ==
  /\ last.op = "cplus_make_name_of_child"
  /\ session.type.n_baseclasses > 0
  /\ session.type.vptr_basetype_self
  /\ session.type.vptr_fieldno >= session.type.n_baseclasses
  /\ Bucket(session.type, "public") = {}
  /\ Len(NonEmptyBuckets(session.type)) = 2
  /\ last.ret = session.type.n_baseclasses + 1
  /\ last.objname = str_protected

\* C26: every object flagged as a fake child has no type and no value, is
\* reported not editable, and has the empty string as its value string.
C26_FakeChildIsBare ==
  \A v \in DOMAIN objs :
    objs[v].fake_child
      => /\ objs[v].type = NoType
         /\ objs[v].value.null
         /\ varobj_get_type(objs, v) = NullString
         /\ ~variable_editable(objs, v)
         /\ my_value_of_variable(tgt, objs, v) = Str(<<>>)

\* the children whose path expression has been asked for, of a struct or
\* pointer-to-struct parent under the C strategy
PathChildren ==
  {c \in DOMAIN objs :
     /\ objs[c].parent # NoObj
     /\ objs[c].path_expr # NoName
     /\ RootOf(objs, c).lang = "c"
     /\ LET type == get_type(objs[objs[c].parent])
        IN \/ TYPE_CODE(type) = "STRUCT"
           \/ TYPE_CODE(type) = "PTR" /\ TYPE_CODE(get_target_type(type)) = "STRUCT"}

\* the child's path expression, compiled in its root's block and evaluated
\* now, gives a value my_value_equal takes for the child's value
RoundTrips(c) ==
  my_value_equal(tgt,
                 EvaluatePath(tgt, objs[c].path_expr, RootOf(objs, c).valid_block),
                 c_value_of_child(tgt, objs, objs[c].parent, objs[c].index)).r

UpTo(v) == {a \in DOMAIN objs : a = v \/ v \in Descendants(objs, a)}

\* the debuggee can be read and evaluated, the parent's value is the one
\* the debuggee holds now, and the types in use down to the parent are the
\* declared ones
PathIsCurrent(c) ==
  LET parent == objs[objs[c].parent]
  IN /\ tgt.memOK /\ tgt.evalOK
     /\ RootOf(objs, c).exp.sym = "xB" => tgt.f1live
     /\ ~parent.value.null
     /\ parent.value.lazy \/ parent.value.data = ContentOf(tgt, parent.value.type)
     /\ \A a \in UpTo(objs[c].parent) : get_type(objs[a]) = objs[a].type

Releases(v) ==
  Cardinality({i \in DOMAIN last'.value_frees :
                 last'.value_frees[i] = [var |-> v, value |-> objs[v].value]})

\* C28: when varobj_update cannot obtain a new value for a root, the root's
\* error flag is set and its stored value is left unchanged; when a new
\* value is obtained, the stored value is replaced by it and the previous
\* value is released exactly once.
C28_UpdateKeepsOrReplaces ==
  [][last'.op = "update" /\ last'.handle # NoObj /\ is_root_p(objs, last'.handle)
     => LET h == last'.handle
            vr == value_of_root(tgt, TheStore, selected, h)
        IN IF vr.value.null
           THEN /\ objs'[last'.var].error
                /\ objs'[last'.var].value = objs[h].value
                /\ last'.value_frees = <<>>
           ELSE /\ objs'[last'.var].value = vr.value
                /\ ~objs[h].value.null => Releases(h) = 1]_vars

\* C29: the update that puts an object on the change list leaves the
\* object's updated flag clear, so that the flag makes the object reported
\* once and not again by the next update.
C29_ReportedClearsUpdated ==
  last.op = "update" /\ last.set
    => \A i \in DOMAIN last.changelist :
         last.changelist[i].var \in DOMAIN objs
           => ~objs[last.changelist[i].var].updated

\* C30: when varobj_update returns n >= 0 and has stored a change list,
\* popping the list yields exactly n objects before the NULL; when it
\* returns -2 the list is stored, is not empty and starts with the root
\* tagged with a type change; -1 and -3 come without a change list, so that
\* a negative code is never a count.
C30_ReturnMatchesChangeList ==
  last.op = "update"
    => /\ (last.set /\ last.ret >= 0) => Len(PopChanges(last.changelist)) = last.ret
       /\ last.ret = -2
            => /\ last.set
               /\ PopChanges(last.changelist) # <<>>
               /\ PopChanges(last.changelist)[1].var = last.var
               /\ PopChanges(last.changelist)[1].type_changed # "UNCHANGED"
       /\ last.ret < 0 => last.ret \in {-1, -2, -3}
       /\ last.ret \in {-1, -3} => ~last.set
       /\ last.set /\ last.ret # -2 => last.ret >= 0

\* an update has returned 2 and the two pops before the NULL give the root
\* and then a child, neither tagged with a type change
C30_Witness ==
  /\ last.op = "update"
  /\ last.set
  /\ last.ret = 2
  /\ Len(PopChanges(last.changelist)) = 2
  /\ PopChanges(last.changelist)[1] = [var |-> last.var, type_changed |-> "UNCHANGED"]
  /\ PopChanges(last.changelist)[2].type_changed = "UNCHANGED"

\* C31: whenever varobj_update returns a count (0 included) or -2, it has
\* stored a change list in the caller's out-parameter.
C31_CountComesWithChangeList ==
  (last.op = "update" /\ (last.ret >= 0 \/ last.ret = -2)) => last.set

\* v is live and the hash table gives v for its name
LiveAndRegistered(v) ==
  /\ v \in DOMAIN objs
  /\ varobj_get_handle(TheStore, objs[v].obj_name) = v

\* C32: when varobj_update returns, every object on the change list is live
\* and registered, and no object deleted during the pass is the object the
\* caller is left with or one of the objects the walk visited (the walk is
\* where an object is re-evaluated and gets a new value).
C32_NoDeletedObjectInUpdate ==
  [][last'.op = "update"
       => /\ last'.set
               => \A v \in {last'.changelist[i].var : i \in DOMAIN last'.changelist} :
                    LiveAndRegistered(v)'
          /\ last'.var \notin DOMAIN objs \ DOMAIN objs'
          /\ \A i \in DOMAIN last'.visited :
               /\ last'.visited[i] \notin DOMAIN objs \ DOMAIN objs'
               /\ last'.visited[i] \in DOMAIN objs']_vars

\* an update has deleted the children of a child whose type changed: the
\* child was visited and is on the change list, names are gone from the
\* hash table
C32_Witness ==
  /\ last.op = "update"
  /\ last.set
  /\ \E i \in DOMAIN last.changelist :
       /\ last.changelist[i].var # last.var
       /\ last.changelist[i].type_changed # "UNCHANGED"
       /\ \E j \in DOMAIN last.visited : last.visited[j] = last.changelist[i].var
  /\ last.pre_names \ RegisteredNames(TheStore) # {}

\* listing the children of v now returns the children v has, the child of
\* index i in place i (none when the count is the unknown -1), and leaves
\* the objects and the hash table as they are
ListsWhatItHas(v) ==
  LET again == varobj_list_children(tgt, TheStore, v)
  IN /\ again.ok
     /\ again.ret = objs[v].num_children
     /\ Len(again.childlist) = IF again.ret = -1 THEN 0 ELSE again.ret
     /\ \A i \in 1..Len(again.childlist) :
          /\ again.childlist[i] \in DOMAIN objs
          /\ objs[again.childlist[i]].parent = v
          /\ objs[again.childlist[i]].index = i - 1
     /\ again.st.objs = objs
     /\ again.st.table = varobj_table

\* the children of v have been listed and none has been deleted since
FullyListed(v) ==
  /\ objs[v].num_children >= 0
  /\ \A i \in 0..(objs[v].num_children - 1) : child_exists(objs, v, i) # NoObj

\* C33: a second varobj_list_children on an object returns the children the
\* first returned, in index order, creates no object and registers no name,
\* right after the first call and after any calls that deleted none of the
\* children; a parent never holds two children of one index.
C33_ListChildrenIdempotent ==
  /\ (last.op = "list_children" /\ last.status = "ok")
       => /\ ListsWhatItHas(last.var)
          /\ varobj_list_children(tgt, TheStore, last.var).childlist = last.visited
          /\ varobj_list_children(tgt, TheStore, last.var).ret = last.ret
  /\ \A v \in DOMAIN objs :
       /\ (FullyListed(v) /\ ChildrenInBounds(objs, v) /\ ~NullTypeRead(objs, v)
           /\ RootOf(objs, v).lang # "")
            => ListsWhatItHas(v)
       /\ \A i, j \in 1..Len(objs[v].children) :
            objs[objs[v].children[i]].index = objs[objs[v].children[j]].index => i = j

\* a second listing of an object with two children or more has returned:
\* the children were there before the call
C33_Witness ==
  /\ last.op = "list_children"
  /\ last.status = "ok"
  /\ last.ret >= 2
  /\ Len(last.pre.children) = last.ret
  /\ Len(last.visited) = last.ret

\* the names in a list of names
NamesIn(l) == {l[i] : i \in DOMAIN l}

\* C34: varobj_delete (node, only_children = 1) deletes and unregisters
\* every materialized descendant of the node; the node stays live and
\* registered under its name, with no children and otherwise as it was; the
\* count and the name list are those of the descendants, without the node.
C34_DeleteOnlyChildren ==
  (last.op = "delete" /\ last.flag)
    => /\ last.handle \in DOMAIN objs
       /\ objs[last.handle].children = <<>>
       /\ objs[last.handle] = [last.pre EXCEPT !.children = <<>>]
       /\ objs[last.handle].obj_name = last.objname
       /\ varobj_get_handle(TheStore, last.objname) = last.handle
       /\ RegisteredNames(TheStore) = last.pre_names \ last.pre_desc
       /\ \A v \in DOMAIN objs :
            /\ objs[v].obj_name \notin last.pre_desc
            /\ objs[v].parent # NoObj => objs[v].parent \in DOMAIN objs
       /\ last.ret = Cardinality(last.pre_desc)
       /\ Len(last.dellist) = last.ret
       /\ NamesIn(last.dellist) = last.pre_desc
       /\ last.objname \notin NamesIn(last.dellist)

\* the children of a node have been deleted, more objects than a type of
\* the debuggee has members, so children and children of children
C34_Witness ==
  /\ last.op = "delete"
  /\ last.flag
  /\ last.ret > MaxFields
  /\ Cardinality(last.pre_desc) = last.ret
  /\ last.handle \in DOMAIN objs

\* listing the children of p makes a new object for the index, under the
\* name n
ListingRecreates(p, index, n) ==
  LET l == varobj_list_children(tgt, TheStore, p)
  IN /\ l.ok
     /\ l.childlist[index + 1] \notin DOMAIN objs
     /\ l.st.objs[l.childlist[index + 1]].index = index
     /\ l.st.objs[l.childlist[index + 1]].parent = p
     /\ l.st.objs[l.childlist[index + 1]].obj_name = n
     /\ varobj_get_handle(l.st, n) = l.childlist[index + 1]

\* C35: varobj_delete (child, only_children = 0) on a node that is not a
\* root removes that node and its materialized descendants and nothing
\* else: every other object stays as it was and registered, but for the
\* parent's child list, which loses the node; the root list is untouched;
\* listing the parent's children afterwards creates a new child for the
\* index.
C35_DeleteChildOnly ==
  /\ [](last.op = "delete" /\ ~last.flag /\ last.pre.parent # NoObj
         /\ ChildrenInBounds(objs, last.pre.parent)
         /\ ~NullTypeRead(objs, last.pre.parent)
           => ListingRecreates(last.pre.parent, last.pre.index, last.objname))
  /\ [][(last'.op = "delete" /\ ~last'.flag /\ last'.pre.parent # NoObj)
          => \A h \in {last'.handle} : \A p \in {objs[h].parent} :
               \A D \in {{h} \cup Descendants(objs, h)} :
                 /\ DOMAIN objs' = DOMAIN objs \ D
                 /\ \A v \in DOMAIN objs' \ {p} : objs'[v] = objs[v]
                 /\ objs'[p] = [objs[p] EXCEPT
                                  !.children = SeqWithout(@, RootFind(@, h))]
                 /\ \A i \in 1..Len(objs'[p].children) : objs'[p].children[i] # h
                 /\ RegisteredNames(TheStore)'
                      = RegisteredNames(TheStore) \ {objs[d].obj_name : d \in D}
                 /\ \A v \in DOMAIN objs' : LiveAndRegistered(v)'
                 /\ rootlist' = rootlist
                 /\ rootcount' = rootcount
                 /\ last'.ret = Cardinality(D)]_vars

\* a child with children of its own has been deleted; its parent still
\* has another child
C35_Witness ==
  /\ last.op = "delete"
  /\ ~last.flag
  /\ last.pre.parent # NoObj
  /\ last.ret >= 2
  /\ last.pre.parent \in DOMAIN objs
  /\ objs[last.pre.parent].children # <<>>
  /\ child_exists(objs, last.pre.parent, last.pre.index) = NoObj

\* v is the child a class-typed object has for one of its access levels
AccessBucket(v) ==
  /\ objs[v].parent # NoObj
  /\ ~objs[objs[v].parent].fake_child
  /\ get_type_deref(objs[objs[v].parent]) # NoType
  /\ TYPE_CODE(get_type_deref(objs[objs[v].parent])) \in {"STRUCT", "UNION"}
  /\ objs[v].index >= TYPE_N_BASECLASSES(ClassOf(get_type_deref(objs[objs[v].parent])))
  /\ objs[v].name \in {str_public, str_private, str_protected}

\* C36: under the Java strategy the access-level children of a class-typed
\* object are flagged as fake children as they are under C++, and so are
\* not editable, have the empty string for their value, and have the
\* members of the access level for children.
C36_JavaBucketsAreFake ==
  \A v \in DOMAIN objs :
    (RootOf(objs, v).lang \in {"cplus", "java"} /\ AccessBucket(v))
      => /\ objs[v].fake_child
         /\ ~variable_editable(objs, v)
         /\ my_value_of_variable(tgt, objs, v) = Str(<<>>)
         /\ number_of_children(objs, v) >= 1

\* the temporary value_of_root makes for the root h
Reparsed(h) ==
  varobj_create(tgt, TheStore, selected, NoName, objs[h].name, 0, NoBlock,
                "USE_SELECTED_FRAME")

\* h is a use-selected-frame root and its expression, parsed afresh in the
\* selected frame, has a type of the name of h's type
ReparsesToSameType(h) ==
  /\ h \in DOMAIN objs
  /\ is_root_p(objs, h)
  /\ objs[h].use_selected_frame
  /\ Reparsed(h).var # NoObj
  /\ Reparsed(h).st.objs[Reparsed(h).var].exp # NoExp
  /\ varobj_type_is_equal_p(Reparsed(h).st.objs[Reparsed(h).var], objs[h])

UnknownCount(v) ==
  /\ ~NullTypeRead(objs, v)
  /\ objs[v].num_children = -1
  /\ number_of_children(objs, v) = -1

\* C38: varobj_list_children on an object whose child count is unknown
\* goes through the root's language entry, returns -1, creates no object
\* and registers no name.
C38_UnknownCountListsNothing ==
  \A v \in DOMAIN objs :
    UnknownCount(v)
      => /\ RootOf(objs, v).lang # ""
         /\ varobj_list_children(tgt, TheStore, v).ok
         /\ varobj_list_children(tgt, TheStore, v).ret = -1
         /\ varobj_list_children(tgt, TheStore, v).childlist = <<>>
         /\ varobj_list_children(tgt, TheStore, v).st.objs = objs
         /\ varobj_list_children(tgt, TheStore, v).st.table = varobj_table

\* C39: varobj_set_value returns non-zero only if the object could be
\* assigned to; for an object that is not editable, has no value or is
\* marked errored it returns 0 and leaves the object's value and updated
\* flag as they were.
C39_SuccessMeansAssigned ==
  (last.op = "set_value" /\ last.handle \in DOMAIN objs)
    => /\ (last.pre.value.null \/ ~variable_editable(objs, last.handle) \/ last.pre.error)
            => /\ last.ret = 0
               /\ objs[last.handle].value = last.pre.value
               /\ objs[last.handle].updated = last.pre.updated
       /\ last.ret # 0
            => /\ ~last.pre.value.null
               /\ variable_editable(objs, last.handle)
               /\ ~last.pre.error

\* C40: varobj_set_value leaves input_radix as it found it, however it
\* returns.
C40_SetValueKeepsInputRadix ==
  [][last'.op = "set_value" => input_radix' = input_radix]_vars

====
